---------------------------- MODULE Spec2Model ----------------------------
(***************************************************************************)
(* Escape Buster: the escape-style inferencer (buildEscapeStyleMap), the   *)
(* codec (parseEscapeSequences / multiLineToEscapedString) and the edit    *)
(* session kept in globalThis._escapeBusterEditContext.                    *)
(*                                                                         *)
(* A text is a sequence of one-character strings.  "\\" is the backslash,  *)
(* "\n", "\r", "\t" are the real newline, carriage return and tab.         *)
(***************************************************************************)
EXTENDS Integers, Sequences, FiniteSets, TLC

(***************************************************************************)
(* Bounds                                                                  *)
(***************************************************************************)
\* longest literal drawn character by character
MaxLen == 4
\* longest literal drawn escape sequence by escape sequence
MaxTokens == 3
\* edit requests made in one run
MaxRequests == 2
\* changes the user makes to the source document in one run
MaxSourceEdits == 2
\* saves of a scratch copy in one run
MaxSaves == 1
\* hovers in one run
MaxHovers == 1
\* longest line handed to the locator
MaxLineLen == 5
\* longest text handed to the encoder
MaxTextLen == 3
\* most preview panels made
MaxPanels == 3
\* most preview requests that reach the panel
MaxPreviews == 4

(***************************************************************************)
(* Characters                                                              *)
(***************************************************************************)
BS == "\\"
NL == "\n"
CR == "\r"
TAB == "\t"
DQ == "\""
SQ == "'"
SLASH == "/"

\* the seven special characters, keyed as the style map keys them
Specials == {NL, CR, TAB, DQ, SQ, BS, SLASH}

\* the letter that follows the backslash in the escape sequence of a special
Marker(ch) ==
    CASE ch = NL -> "n"
      [] ch = CR -> "r"
      [] ch = TAB -> "t"
      [] OTHER -> ch

(***************************************************************************)
(* String primitives of the JavaScript runtime, as the code uses them      *)
(***************************************************************************)
\* s.substring(i) for a 0-based i
Drop(s, k) == SubSeq(s, k + 1, Len(s))

\* does pat occur at 0-based index i of s
MatchAt(s, pat, i) ==
    /\ i >= 0
    /\ i + Len(pat) <= Len(s)
    /\ SubSeq(s, i + 1, i + Len(pat)) = pat

\* /pat/.test(s) for a pattern that is a fixed text
Test(s, pat) == \E i \in 0..Len(s) : MatchAt(s, pat, i)

\* s.includes(ch)
Includes(s, ch) == \E i \in 1..Len(s) : s[i] = ch

\* s.replace(/pat/g, rep): leftmost matches, non-overlapping, one pass
RECURSIVE ReplaceAll(_, _, _)
ReplaceAll(s, pat, rep) ==
    IF Len(s) < Len(pat) THEN s
    ELSE IF MatchAt(s, pat, 0)
         THEN rep \o ReplaceAll(Drop(s, Len(pat)), pat, rep)
         ELSE <<Head(s)>> \o ReplaceAll(Tail(s), pat, rep)

\* s.indexOf(pat, from), -1 when there is none
IndexOf(s, pat, from) ==
    LET hits == {i \in from..Len(s) : MatchAt(s, pat, i)}
    IN IF hits = {} THEN -1 ELSE CHOOSE i \in hits : \A j \in hits : i <= j

(***************************************************************************)
(* Escape-style inferencer                                                 *)
(***************************************************************************)
\* a key the map does not hold
absent == "absent"

\* the single-escaped and the double-escaped pattern of a special
SinglePat(ch) == <<BS, Marker(ch)>>
DoublePat(ch) == <<BS, BS, Marker(ch)>>

\* mutant: a backslash before any character counts as a single-escaped
\* backslash (/\\/ for /\\\\/)
buildEscapeStyleMapLoneBackslash(str) ==
    LET dbl == [ch \in Specials |->
                  CASE ch \in {DQ, SQ} -> Test(str, DoublePat(DQ)) \/ Test(str, DoublePat(SQ))
                    [] ch = BS -> Test(str, <<BS, BS, BS, BS>>)
                    [] OTHER -> Test(str, DoublePat(ch))]
    IN [ch \in Specials |->
          IF dbl[ch] THEN "double-escaped"
          ELSE IF Test(str, IF ch = BS THEN <<BS>> ELSE SinglePat(ch)) THEN "single-escaped"
          ELSE absent]

buildEscapeStyleMap(str) ==
    LET dbl == [ch \in Specials |->
                  CASE ch \in {DQ, SQ} -> Test(str, DoublePat(DQ)) \/ Test(str, DoublePat(SQ))
                    [] ch = BS -> Test(str, <<BS, BS, BS, BS>>)
                    [] OTHER -> Test(str, DoublePat(ch))]
    IN [ch \in Specials |->
          IF dbl[ch] THEN "double-escaped"
          ELSE IF Test(str, SinglePat(ch)) THEN "single-escaped"
          ELSE absent]

\* escapeStyle = /\\\\[ntr"'\\/]/.test(s) ? 'double-escaped' : 'single-escaped'
defaultEscapeStyle(str) ==
    IF \E ch \in Specials : Test(str, DoublePat(ch))
    THEN "double-escaped" ELSE "single-escaped"

(***************************************************************************)
(* Codec                                                                   *)
(***************************************************************************)
\* the argument `original` left out
Undefined == <<"undefined">>

\* mutant: the pass of the tab left out
DecodePassNoTab(result, escapeMap, ch) ==
    IF ch = TAB THEN result
    ELSE IF escapeMap[ch] = "double-escaped"
    THEN ReplaceAll(result, IF ch = BS THEN <<BS, BS, BS, BS>> ELSE DoublePat(ch),
                    SinglePat(ch))
    ELSE IF escapeMap[ch] = "single-escaped"
    THEN ReplaceAll(result, SinglePat(ch), <<ch>>)
    ELSE result

\* one pass of the style-aware decode; the double-escaped pattern of the
\* backslash is four backslashes (/\\\\\\\\/g)
DecodePass(result, escapeMap, ch) ==
    IF escapeMap[ch] = "double-escaped"
    THEN ReplaceAll(result, IF ch = BS THEN <<BS, BS, BS, BS>> ELSE DoublePat(ch),
                    SinglePat(ch))
    ELSE IF escapeMap[ch] = "single-escaped"
    THEN ReplaceAll(result, SinglePat(ch), <<ch>>)
    ELSE result

\* the order of the passes of the style-aware decode
DecodeOrder == <<NL, CR, TAB, SLASH, BS, DQ, SQ>>
\* the order of the passes of the fallback
FallbackOrder == <<NL, TAB, CR, DQ, SQ, BS, SLASH>>

RECURSIVE DecodePasses(_, _, _)
DecodePasses(result, escapeMap, order) ==
    IF order = <<>> THEN result
    ELSE DecodePasses(DecodePass(result, escapeMap, Head(order)), escapeMap, Tail(order))

\* mutant: no fast path, and the fallback patterns written without their
\* backslash (/n/g for /\\n/g)
RECURSIVE BareMarkerPasses(_, _)
BareMarkerPasses(result, order) ==
    IF order = <<>> THEN result
    ELSE BareMarkerPasses(ReplaceAll(result, <<Marker(Head(order))>>, <<Head(order)>>),
                          Tail(order))

parseEscapeSequencesBareMarkers(input, original) ==
    IF original = Undefined \/ original = <<>>
    THEN BareMarkerPasses(input, FallbackOrder)
    ELSE DecodePasses(input, buildEscapeStyleMap(original), DecodeOrder)

parseEscapeSequences(input, original) ==
    IF ~Includes(input, BS) THEN input
    ELSE IF original = Undefined \/ original = <<>>
    THEN DecodePasses(input, [ch \in Specials |-> "single-escaped"], FallbackOrder)
    ELSE DecodePasses(input, buildEscapeStyleMap(original), DecodeOrder)

\* mutant: the per-character style map is ignored, the default style decides
EncodeCharDefaultOnly(ch, style, escapeMap) ==
    IF ch \in Specials
    THEN IF style = "double-escaped" THEN DoublePat(ch) \o
              (IF ch = BS THEN <<BS>> ELSE <<>>)
         ELSE SinglePat(ch)
    ELSE <<ch>>

\* mutant: a character without an entry is written single-escaped
EncodeCharMapOnly(ch, style, escapeMap) ==
    LET charStyle == IF ch \in Specials /\ escapeMap[ch] # absent
                     THEN escapeMap[ch] ELSE "single-escaped"
    IN IF ch \in Specials
       THEN IF charStyle = "double-escaped" THEN DoublePat(ch) \o
                 (IF ch = BS THEN <<BS>> ELSE <<>>)
            ELSE SinglePat(ch)
       ELSE <<ch>>

\* what encode emits for one character
EncodeChar(ch, style, escapeMap) ==
    LET charStyle == IF ch \in Specials /\ escapeMap[ch] # absent
                     THEN escapeMap[ch] ELSE style
    IN IF ch \in Specials
       THEN IF charStyle = "double-escaped" THEN DoublePat(ch) \o
                 (IF ch = BS THEN <<BS>> ELSE <<>>)
            ELSE SinglePat(ch)
       ELSE <<ch>>

\* mutant: what was emitted for the characters that follow has its
\* backslashes escaped again
RECURSIVE multiLineToEscapedStringEscapedAgain(_, _, _)
multiLineToEscapedStringEscapedAgain(text, style, escapeMap) ==
    IF text = <<>> THEN <<>>
    ELSE EncodeChar(Head(text), style, escapeMap)
         \o ReplaceAll(multiLineToEscapedStringEscapedAgain(Tail(text), style, escapeMap),
                       <<BS>>, <<BS, BS>>)

RECURSIVE multiLineToEscapedString(_, _, _)
multiLineToEscapedString(text, style, escapeMap) ==
    IF text = <<>> THEN <<>>
    ELSE EncodeChar(Head(text), style, escapeMap)
         \o multiLineToEscapedString(Tail(text), style, escapeMap)


(***************************************************************************)
(* String-boundary locator                                                 *)
(***************************************************************************)
\* no range: stringRange null or undefined
NoRange == <<>>

NotInString == [isInString |-> FALSE, stringRange |-> NoRange, stringContent |-> <<>>]

\* mutant: the span and the content take in the opening quote
InStringWithQuote(line, from, to) ==
    [isInString |-> TRUE, stringRange |-> <<from - 1, to>>,
     stringContent |-> SubSeq(line, from, to)]

InString(line, from, to) ==
    [isInString |-> TRUE, stringRange |-> <<from, to>>,
     stringContent |-> SubSeq(line, from + 1, to)]

\* mutants of the scan: "quote-ends" takes a quote after a backslash for a
\* quote, "closed-only" drops the check after the loop, "from-quote" takes
\* the position on the opening quote for one inside the literal
RECURSIVE ScanLineMutant(_, _, _, _, _, _, _, _)
ScanLineMutant(line, character, i, inString, stringStart, quoteChar, escapeNext, how) ==
    IF i >= Len(line)
    THEN IF /\ how # "closed-only"
            /\ inString /\ stringStart # -1
            /\ (character > stringStart \/ (how = "from-quote" /\ character = stringStart))
         THEN InString(line, stringStart + 1, Len(line))
         ELSE NotInString
    ELSE LET char == line[i + 1] IN
         IF escapeNext /\ how # "quote-ends"
         THEN ScanLineMutant(line, character, i + 1, inString, stringStart, quoteChar, FALSE, how)
         ELSE IF char = BS
         THEN ScanLineMutant(line, character, i + 1, inString, stringStart, quoteChar, TRUE, how)
         ELSE IF char \in {DQ, SQ} /\ ~inString
         THEN ScanLineMutant(line, character, i + 1, TRUE, i, char, FALSE, how)
         ELSE IF char \in {DQ, SQ} /\ char = quoteChar
         THEN IF /\ (character > stringStart \/ (how = "from-quote" /\ character = stringStart))
                 /\ character < i
              THEN InString(line, stringStart + 1, i)
              ELSE ScanLineMutant(line, character, i + 1, FALSE, -1, "", FALSE, how)
         ELSE ScanLineMutant(line, character, i + 1, inString, stringStart, quoteChar, FALSE, how)

isPositionInStringQuoteEnds(line, character) ==
    ScanLineMutant(line, character, 0, FALSE, -1, "", FALSE, "quote-ends")
isPositionInStringClosedOnly(line, character) ==
    ScanLineMutant(line, character, 0, FALSE, -1, "", FALSE, "closed-only")
isPositionInStringFromQuote(line, character) ==
    ScanLineMutant(line, character, 0, FALSE, -1, "", FALSE, "from-quote")

\* the loop over the line, i 0-based, and the check after it
RECURSIVE ScanLine(_, _, _, _, _, _, _)
ScanLine(line, character, i, inString, stringStart, quoteChar, escapeNext) ==
    IF i >= Len(line)
    THEN IF inString /\ stringStart # -1 /\ character > stringStart
         THEN InString(line, stringStart + 1, Len(line))
         ELSE NotInString
    ELSE LET char == line[i + 1] IN
         IF escapeNext
         THEN ScanLine(line, character, i + 1, inString, stringStart, quoteChar, FALSE)
         ELSE IF char = BS
         THEN ScanLine(line, character, i + 1, inString, stringStart, quoteChar, TRUE)
         ELSE IF char \in {DQ, SQ} /\ ~inString
         THEN ScanLine(line, character, i + 1, TRUE, i, char, FALSE)
         ELSE IF char \in {DQ, SQ} /\ char = quoteChar
         THEN IF character > stringStart /\ character < i
              THEN InString(line, stringStart + 1, i)
              ELSE ScanLine(line, character, i + 1, FALSE, -1, "", FALSE)
         ELSE ScanLine(line, character, i + 1, inString, stringStart, quoteChar, FALSE)

isPositionInString(line, character) ==
    ScanLine(line, character, 0, FALSE, -1, "", FALSE)

\* /(?<!\\)\\[ntr"'\/]/.test(input)
containsEscapeSequences(str) ==
    \E i \in 1..(Len(str) - 1) :
        /\ str[i] = BS
        /\ (IF i = 1 THEN TRUE ELSE str[i - 1] # BS)
        /\ str[i + 1] \in {"n", "t", "r", DQ, SQ, SLASH}

(***************************************************************************)
(* Edit session: the helpers of the handlers                               *)
(***************************************************************************)
\* mutant: the first textual match is taken, whatever the offset
FirstOccurrence(lineText, searchStr, hoverCharacter, idx) ==
    LET n == IndexOf(lineText, searchStr, idx + 1)
    IN IF n = -1 THEN NoRange ELSE <<n, n + Len(searchStr)>>

\* the while (true) loop over the occurrences of the text on the line
RECURSIVE SearchOccurrence(_, _, _, _)
SearchOccurrence(lineText, searchStr, hoverCharacter, idx) ==
    LET n == IndexOf(lineText, searchStr, idx + 1)
    IN IF n = -1 THEN NoRange
       ELSE IF hoverCharacter >= n /\ hoverCharacter <= n + Len(searchStr)
       THEN <<n, n + Len(searchStr)>>
       ELSE SearchOccurrence(lineText, searchStr, hoverCharacter, n)

\* editBuilder.replace(range, text) on the one line of the document; the
\* editor clamps a range that reaches past the end of the line
Min(a, b) == IF a < b THEN a ELSE b
ReplaceRange(lineText, range, text) ==
    LET from == Min(range[1], Len(lineText))
        to == Min(range[2], Len(lineText))
    IN SubSeq(lineText, 1, from) \o text \o Drop(lineText, to)

(***************************************************************************)
(* State                                                                   *)
(***************************************************************************)
VARIABLES
    literal,       \* codec: the literal handed to parseEscapeSequences
    styleSource,   \* codec: the `original` argument the style map is built from
    decoded,       \* codec: the result of parseEscapeSequences
    defaultStyle,  \* codec: the default style handed to multiLineToEscapedString
    encoded,       \* codec: the result of multiLineToEscapedString
    cstep,         \* codec: "literal", "decoded" or "encoded"
    lineText,      \* the line of the source document the literals are on
    sourceEdits,   \* how many times the user changed the source document
    hoverArgs,     \* the arguments of the edit link of the hover last shown
    hovers,        \* how many hovers were shown
    pc,            \* per edit request: where its handler stands
    contexts,      \* per edit request: the context object it builds
    editContext,   \* globalThis._escapeBusterEditContext: a request, or 0
    stored,        \* the fields of the object last assigned to it
    files,         \* escape-buster-tmp: per path the content, or Undefined
    textDocuments, \* per scratch path the text of its open document, or Undefined
    saves,         \* the save handlers that are waiting at an await
    savesDone,     \* how many saves of a scratch copy there were
    timers,        \* the setTimeout callbacks that are due
    warnings,      \* the showWarningMessage calls so far
    writes,        \* the editBuilder.replace calls so far, in order
    scratch,       \* per scratch path: was it ever saved, the text it held when closed
    replaced,      \* the contexts a later request's context took the place of
    handled,       \* the runs of the save handler that got past its early returns
    cleanups,      \* the runs of the setTimeout callback
    closedLive,    \* the contexts that were the stored one when their scratch copy closed
    errors,        \* the showErrorMessage calls so far
    docLine,       \* locator: the text of the line handed to isPositionInString
    position,      \* locator: position.character
    located,       \* locator: what isPositionInString returned
    fileName,      \* hover: document.fileName
    settings,      \* hover: the values of the escapeBuster settings
    highlighter,   \* hover: what hljs.highlightAuto does when it is called
    configuration, \* hover: what getConfiguration returned
    hoverResult,   \* hover: what provideHover returned
    panels,        \* preview: the webview panels that exist
    currentPanel,  \* preview: EscapePreviewPanel.currentPanel, a panel or 0
    created,       \* preview: how many panels createWebviewPanel has made
    webviews,      \* preview: per panel the title and the content last set
    previews,      \* preview: the calls of createOrShow so far
    styleMap,      \* inferencer and encoder: the escape map
    prior          \* inferencer: the literal and its map before a sequence was added

codecVars == <<literal, styleSource, decoded, defaultStyle, encoded, cstep>>
sessionVars == <<lineText, sourceEdits, hoverArgs, hovers, pc, contexts, editContext, stored,
                 files, textDocuments, saves, savesDone,
                 timers, warnings, writes, scratch, replaced, handled, cleanups,
                 closedLive, errors>>
panelVars == <<panels, currentPanel, created, webviews, previews>>
hoverVars == <<fileName, settings, highlighter, configuration, hoverResult, panelVars>>
locatorVars == <<docLine, position, located, hoverVars>>
inferVars == <<styleMap, prior>>
vars == <<codecVars, sessionVars, locatorVars, inferVars>>

(***************************************************************************)
(* Edit session: the source document, the scratch copies and the handlers  *)
(* of escape-buster.editAsMultiline, onDidSaveTextDocument and             *)
(* onDidChangeVisibleTextEditors.  A handler runs one step from an await   *)
(* to the next; steps of different handlers interleave.                    *)
(***************************************************************************)
Requests == 1..MaxRequests
\* 'String Editor', 'String Editor 1', ...: the number in the name
Paths == 0..(MaxRequests - 1)

\* a number that is undefined
NoNumber == -1
\* no hover link shown
NoHover == [stringContent |-> <<>>, hoverLine |-> NoNumber, hoverCharacter |-> NoNumber,
            documentUri |-> "", stringRange |-> NoRange, lineText |-> <<>>]
SourceUri == "file:///source"

\* the line the source document starts with: \\"\"\""+"\n", the literal \"\"
\* at [3,7) and the literal \n at [10,12)
SourceLines ==
    { <<BS, BS, DQ, BS, DQ, BS, DQ, DQ, "+", DQ, BS, "n", DQ>> }
\* the offsets the user hovers at, has the cursor at when the command runs
\* without an argument, and when it runs with a bare string
HoverPositions == {4, 10}
CursorPositions == {4, 8}
StringPositions == {10}
\* what the user types into a scratch copy
ScratchTexts == { <<"c", NL>> }
\* the texts the command is called with as a bare string
StringArgs == { <<BS, "t">> }

\* the context object a request builds; form, beganIn and beganOn are
\* bookkeeping for the properties: the form of the request, the span of the
\* literal the request was made in and the line as it was then
BlankContext ==
    [originalString |-> <<>>, stringRange |-> NoRange,
     escapeStyle |-> "single-escaped", escapeMap |-> buildEscapeStyleMap(<<>>),
     documentUri |-> "", tempFilePath |-> NoNumber,
     wasSaved |-> FALSE, lastSavedText |-> Undefined,
     hoverLine |-> NoNumber, hoverCharacter |-> NoNumber,
     form |-> "none", beganIn |-> NoRange, beganOn |-> <<>>]

\* the fields of the object the command stores, taken from locals
ContextFields(locals) ==
    [originalString |-> locals.originalString,
     stringRange |-> locals.stringRange,
     escapeStyle |-> locals.escapeStyle,
     escapeMap |-> locals.escapeMap,
     documentUri |-> locals.documentUri,
     tempFilePath |-> locals.tempFilePath,
     wasSaved |-> FALSE,
     hoverLine |-> locals.hoverLine,
     hoverCharacter |-> locals.hoverCharacter]

\* no literal before the one at hand
NoPrior == [literal |-> Undefined, styleMap |-> [ch \in Specials |-> absent], of |-> "a", at |-> 0]

\* buildEscapeStyleMap has not been called
InferIdle ==
    /\ styleMap = [ch \in Specials |-> absent]
    /\ prior = NoPrior

\* no result yet
NotLocated == [isInString |-> FALSE, stringRange |-> NoRange, stringContent |-> Undefined]

\* isPositionInString has not been called
LocatorIdle ==
    /\ docLine = <<>>
    /\ position = 0
    /\ located = NotLocated

\* the settings as they are when the user has set none
\* (enabledFileTypes undefined)
NoFileTypes == << Undefined >>
NoSettings == [enabledFileTypes |-> NoFileTypes, enableAutoPreview |-> "unset"]
\* highlightAuto finds nothing
NoDetection == [throws |-> FALSE, language |-> "", relevance |-> 0]
\* provideHover returns null; the same record before it was called, but
\* for called
NoHoverResult == [called |-> TRUE, shown |-> FALSE, range |-> NoRange, stringContent |-> <<>>,
                  parsedContent |-> <<>>, language |-> ""]
NotHovered == [NoHoverResult EXCEPT !.called = FALSE]

\* a panel that was never made
NoWebview == [title |-> <<"", "">>, content |-> Undefined]

\* no preview was asked for
PanelIdle ==
    /\ panels = {}
    /\ currentPanel = 0
    /\ created = 0
    /\ webviews = [id \in 1..MaxPanels |-> NoWebview]
    /\ previews = 0

\* provideHover has not been called
HoverIdle ==
    /\ PanelIdle
    /\ fileName = <<>>
    /\ settings = NoSettings
    /\ highlighter = NoDetection
    /\ configuration = NoSettings
    /\ hoverResult = NotHovered

SessionInit ==
    /\ lineText \in SourceLines
    /\ sourceEdits = 0
    /\ hoverArgs = NoHover
    /\ hovers = 0
    /\ pc = [r \in Requests |-> "unused"]
    /\ contexts = [r \in Requests |-> BlankContext]
    /\ editContext = 0
    /\ stored = ContextFields(BlankContext)
    /\ files = [p \in Paths |-> Undefined]
    /\ textDocuments = [p \in Paths |-> Undefined]
    /\ scratch = [p \in Paths |-> [saved |-> FALSE, closedText |-> Undefined]]
    /\ saves = {}
    /\ savesDone = 0
    /\ timers = {}
    /\ warnings = {}
    /\ writes = <<>>
    /\ replaced = {}
    /\ handled = {}
    /\ cleanups = {}
    /\ closedLive = {}
    /\ errors = {}

\* something may still read or write the source document: a request to
\* come or under way, an open scratch copy, a save handler or a cleanup
Live ==
    \/ \E r \in Requests : pc[r] \in {"unused", "opening", "showing"}
    \/ \E p \in Paths : textDocuments[p] # Undefined
    \/ saves # {}
    \/ timers # {}

\* the user types a character at the start of the line, or takes it out
\* again; the changes followed are those made before a second request
EditSource ==
    /\ sourceEdits < MaxSourceEdits
    /\ Live
    /\ \A r \in Requests : r > 1 => pc[r] = "unused"
    /\ sourceEdits' = sourceEdits + 1
    /\ lineText' = IF sourceEdits % 2 = 0 THEN <<"x">> \o lineText ELSE Tail(lineText)
    /\ UNCHANGED closedLive
    /\ UNCHANGED errors
    /\ UNCHANGED <<codecVars, locatorVars, inferVars>>
    /\ UNCHANGED <<hoverArgs, hovers, pc, contexts, editContext, stored, files, textDocuments,
                   scratch, saves, savesDone, timers, warnings,
                   writes, replaced, handled, cleanups>>

\* provideHover at a position where it shows the preview with its edit link
provideHover(character) ==
    LET res == isPositionInString(lineText, character) IN
    /\ hovers < MaxHovers
    /\ \E r \in Requests : pc[r] = "unused"
    /\ res.isInString
    /\ res.stringRange # NoRange
    /\ containsEscapeSequences(res.stringContent)
    /\ hovers' = hovers + 1
    /\ hoverArgs' = [stringContent |-> res.stringContent, hoverLine |-> 0,
                     hoverCharacter |-> character, documentUri |-> SourceUri,
                     stringRange |-> res.stringRange, lineText |-> lineText]
    /\ UNCHANGED closedLive
    /\ UNCHANGED errors
    /\ UNCHANGED <<codecVars, locatorVars, inferVars>>
    /\ UNCHANGED <<lineText, sourceEdits, pc, contexts, editContext, stored, files,
                   textDocuments, scratch, saves, savesDone,
                   timers, warnings, writes,
                   replaced, handled, cleanups>>

\* the locals a request made from the hover link sets
HoverLocals(arg) ==
    [BlankContext EXCEPT
       !.originalString = arg.stringContent,
       !.hoverLine = arg.hoverLine,
       !.hoverCharacter = arg.hoverCharacter,
       !.documentUri = arg.documentUri,
       !.stringRange = SearchOccurrence(lineText, arg.stringContent, arg.hoverCharacter, -1),
       !.escapeStyle = defaultEscapeStyle(arg.stringContent),
       !.escapeMap = buildEscapeStyleMap(arg.stringContent),
       !.form = "hover", !.beganIn = arg.stringRange, !.beganOn = arg.lineText]

\* the locals a request made with a bare string sets
StringLocals(arg, character) ==
    LET res == isPositionInString(lineText, character) IN
    [BlankContext EXCEPT
       !.originalString = arg,
       !.documentUri = SourceUri,
       !.stringRange = IF res.isInString THEN res.stringRange ELSE NoRange,
       !.escapeMap = IF res.isInString /\ res.stringRange # NoRange
                     THEN buildEscapeStyleMap(res.stringContent)
                     ELSE buildEscapeStyleMap(<<>>),
       !.escapeStyle = defaultEscapeStyle(arg),
       !.form = "string", !.beganIn = res.stringRange, !.beganOn = lineText]

\* the locals a request made without an argument sets, from the cursor
CursorLocals(character) ==
    LET res == isPositionInString(lineText, character) IN
    IF res.isInString /\ res.stringRange # NoRange
    THEN [BlankContext EXCEPT
            !.originalString = res.stringContent,
            !.documentUri = SourceUri,
            !.stringRange = res.stringRange,
            !.escapeStyle = defaultEscapeStyle(res.stringContent),
            !.escapeMap = buildEscapeStyleMap(res.stringContent),
            !.form = "cursor", !.beganIn = res.stringRange, !.beganOn = lineText]
    ELSE [BlankContext EXCEPT !.documentUri = SourceUri, !.form = "cursor",
                              !.beganOn = lineText]

\* the while (fs.existsSync(tempFilePath)) loop
FreePath == CHOOSE p \in Paths : files[p] = Undefined /\ \A q \in Paths : q < p => files[q] # Undefined

\* the command up to its first await: the locals, the decode, the scratch file
StartEdit(r, locals) ==
    /\ pc[r] = "unused"
    /\ contexts' = [contexts EXCEPT ![r] = [locals EXCEPT !.tempFilePath = FreePath]]
    /\ files' = [files EXCEPT ![FreePath] =
                    parseEscapeSequences(locals.originalString, locals.originalString)]
    /\ scratch' = [scratch EXCEPT ![FreePath] = [saved |-> FALSE, closedText |-> Undefined]]
    /\ pc' = [pc EXCEPT ![r] = "opening"]
    /\ UNCHANGED closedLive
    /\ UNCHANGED errors
    /\ UNCHANGED <<codecVars, locatorVars, inferVars>>
    /\ UNCHANGED <<lineText, sourceEdits, hoverArgs, hovers, editContext, stored, textDocuments,
                   saves, savesDone, timers, warnings, writes,
                   replaced, handled, cleanups>>

\* a request made when the requests before it have run to their end
BeginEdit(r, locals) ==
    /\ \A q \in Requests : q < r => pc[q] \in {"done", "failed"}
    /\ StartEdit(r, locals)

EditFromHover ==
    /\ hoverArgs # NoHover
    /\ \E r \in Requests : BeginEdit(r, HoverLocals(hoverArgs))

EditWithString ==
    \E r \in Requests, arg \in StringArgs, character \in StringPositions :
        BeginEdit(r, StringLocals(arg, character))

EditAtCursor ==
    \E r \in Requests, character \in CursorPositions :
        BeginEdit(r, CursorLocals(character))

\* mutant: the catch returns without a message
AbortRequestSilently(r, message) ==
    /\ pc' = [pc EXCEPT ![r] = "failed"]
    /\ UNCHANGED errors
    /\ UNCHANGED <<editContext, stored>>

\* a catch of the command: showErrorMessage(...); return
AbortRequest(r, message) ==
    /\ pc' = [pc EXCEPT ![r] = "failed"]
    /\ errors' = errors \cup {[request |-> r, message |-> message]}
    /\ UNCHANGED <<editContext, stored>>

\* await openTextDocument(realTempFilePath) settles
EditOpened(r) ==
    LET path == contexts[r].tempFilePath IN
    /\ pc[r] = "opening"
    /\ IF files[path] = Undefined
       THEN /\ AbortRequest(r, "Failed to open temp file")
            /\ UNCHANGED textDocuments
       ELSE /\ pc' = [pc EXCEPT ![r] = "showing"]
            /\ textDocuments' = [textDocuments EXCEPT ![path] =
                                   IF @ = Undefined THEN files[path] ELSE @]
            /\ UNCHANGED <<errors, editContext, stored>>
    /\ UNCHANGED closedLive
    /\ UNCHANGED <<codecVars, locatorVars, inferVars>>
    /\ UNCHANGED <<lineText, sourceEdits, hoverArgs, hovers, contexts, files,
                   scratch, saves, savesDone, timers, warnings,
                   writes, replaced, handled, cleanups>>

\* mutant: the locals but for the scratch path are shared by the runs of
\* the command: the object holds those of the request that began last
ContextObjectSharedLocals(r) ==
    LET begun == {q \in Requests : pc[q] # "unused"}
        last == CHOOSE q \in begun : \A o \in begun : o <= q
    IN [ContextFields(contexts[last]) EXCEPT !.tempFilePath = contexts[r].tempFilePath]

\* the object literal of the assignment, built from the locals of the run
ContextObject(r) == ContextFields(contexts[r])

\* mutant: a context that is there is kept, the new one is dropped
StoreContextKeepsOld(r) == IF editContext # 0 THEN editContext ELSE r

\* globalThis._escapeBusterEditContext = { ... }
StoreContext(r) == r

\* await showTextDocument(doc) settles and the context is stored
EditShown(r) ==
    /\ pc[r] = "showing"
    /\ pc' = [pc EXCEPT ![r] = "done"]
    /\ editContext' = StoreContext(r)
    /\ stored' = ContextObject(r)
    /\ replaced' = IF editContext # 0 /\ editContext # r
                   THEN replaced \cup {editContext} ELSE replaced
    /\ UNCHANGED closedLive
    /\ UNCHANGED errors
    /\ UNCHANGED <<codecVars, locatorVars, inferVars>>
    /\ UNCHANGED <<lineText, sourceEdits, hoverArgs, hovers, contexts, files,
                   textDocuments, scratch, saves, savesDone,
                   timers, warnings, writes, handled, cleanups>>

\* the scratch copy of a path is shown in an editor
Shown(p) ==
    /\ textDocuments[p] # Undefined
    /\ \E r \in Requests : pc[r] = "done" /\ contexts[r].tempFilePath = p

\* the user types in a scratch copy
TypeInScratch(p, text) ==
    /\ Shown(p)
    /\ textDocuments[p] # text
    /\ textDocuments' = [textDocuments EXCEPT ![p] = text]
    /\ UNCHANGED closedLive
    /\ UNCHANGED errors
    /\ UNCHANGED <<codecVars, locatorVars, inferVars>>
    /\ UNCHANGED <<lineText, sourceEdits, hoverArgs, hovers, pc, contexts, editContext, stored,
                   files, scratch, saves, savesDone, timers,
                   warnings, writes, replaced, handled, cleanups>>

\* mutant: the save handler searches the line with the first textual match
ReconstructRangeFirstMatch(ctx, line) ==
    IF ctx.documentUri # "" /\ ctx.hoverLine # NoNumber /\ ctx.hoverCharacter # NoNumber
    THEN FirstOccurrence(line, ctx.originalString, ctx.hoverCharacter, -1)
    ELSE NoRange

\* if (!stringRange && ...) { search the recorded line }: the span is
\* searched again only when the context holds none
ReconstructRange(ctx, line) ==
    IF ctx.documentUri # "" /\ ctx.hoverLine # NoNumber /\ ctx.hoverCharacter # NoNumber
    THEN SearchOccurrence(line, ctx.originalString, ctx.hoverCharacter, -1)
    ELSE NoRange

\* mutant: the span is searched again at every save that has an offset
SaveRangeSearchedAgain(ctx, line) ==
    IF ctx.hoverCharacter # NoNumber THEN ReconstructRange(ctx, line) ELSE ctx.stringRange

\* the stringRange the save handler replaces
SaveRange(ctx, line) ==
    IF ctx.stringRange # NoRange THEN ctx.stringRange ELSE ReconstructRange(ctx, line)

\* a text is truthy when it is there and not empty
Truthy(text) == text # Undefined /\ text # <<>>

\* one editBuilder.replace, as the properties see it
WriteRecord(c, by, save, range, text, resolvedOn) ==
    [ctx |-> c, by |-> by, save |-> save, range |-> range, text |-> text,
     before |-> lineText, after |-> ReplaceRange(lineText, range, text),
     resolvedOn |-> resolvedOn, superseded |-> c \in replaced]

NoRangeWarning == "Could not determine string range for replacement."

\* mutant: the handler does not compare the saved document with the scratch
\* path of the context
onDidSaveTextDocumentAnyPath(p) ==
    LET c == editContext
        ctx == contexts[c]
        editedText == textDocuments[p]
        stringRange == SaveRange(ctx, lineText)
    IN
    /\ Shown(p)
    /\ savesDone < MaxSaves
    /\ savesDone' = savesDone + 1
    /\ files' = [files EXCEPT ![p] = editedText]
    /\ scratch' = [scratch EXCEPT ![p].saved = TRUE]
    /\ IF c = 0
       THEN UNCHANGED <<saves, warnings, contexts, handled>>
       ELSE /\ handled' = handled \cup {[save |-> savesDone + 1, ctx |-> c,
                                          on |-> lineText, recorded |-> ctx.stringRange]}
            /\ IF stringRange # NoRange
               THEN /\ saves' = saves \cup {[id |-> savesDone + 1, ctx |-> c, pc |-> "edit",
                                             editedText |-> editedText,
                                             stringRange |-> stringRange,
                                             resolvedOn |-> lineText]}
                    /\ UNCHANGED <<warnings, contexts>>
               ELSE /\ warnings' = warnings \cup {[ctx |-> c, save |-> savesDone + 1,
                                                    message |-> NoRangeWarning]}
                    /\ contexts' = [contexts EXCEPT ![c].wasSaved = TRUE,
                                                    ![c].lastSavedText = editedText]
                    /\ saves' = saves \cup {[id |-> savesDone + 1, ctx |-> c, pc |-> "close",
                                             editedText |-> editedText,
                                             stringRange |-> NoRange,
                                             resolvedOn |-> lineText]}
    /\ UNCHANGED closedLive
    /\ UNCHANGED errors
    /\ UNCHANGED <<codecVars, locatorVars, inferVars>>
    /\ UNCHANGED <<lineText, sourceEdits, hoverArgs, hovers, pc, editContext, stored,
                   textDocuments, timers, writes, replaced, cleanups>>

\* the user saves the scratch copy of a path; onDidSaveTextDocument runs up
\* to its first await
onDidSaveTextDocument(p) ==
    LET c == editContext
        ctx == contexts[c]
        editedText == textDocuments[p]
        stringRange == SaveRange(ctx, lineText)
    IN
    /\ Shown(p)
    /\ savesDone < MaxSaves
    /\ savesDone' = savesDone + 1
    /\ files' = [files EXCEPT ![p] = editedText]
    /\ scratch' = [scratch EXCEPT ![p].saved = TRUE]
    /\ IF c = 0 \/ contexts[c].tempFilePath # p
       THEN UNCHANGED <<saves, warnings, contexts, handled>>
       ELSE /\ handled' = handled \cup {[save |-> savesDone + 1, ctx |-> c,
                                          on |-> lineText, recorded |-> ctx.stringRange]}
            /\ IF stringRange # NoRange
               THEN /\ saves' = saves \cup {[id |-> savesDone + 1, ctx |-> c, pc |-> "edit",
                                             editedText |-> editedText,
                                             stringRange |-> stringRange,
                                             resolvedOn |-> lineText]}
                    /\ UNCHANGED <<warnings, contexts>>
               ELSE /\ warnings' = warnings \cup {[ctx |-> c, save |-> savesDone + 1,
                                                    message |-> NoRangeWarning]}
                    /\ contexts' = [contexts EXCEPT ![c].wasSaved = TRUE,
                                                    ![c].lastSavedText = editedText]
                    /\ saves' = saves \cup {[id |-> savesDone + 1, ctx |-> c, pc |-> "close",
                                             editedText |-> editedText,
                                             stringRange |-> NoRange,
                                             resolvedOn |-> lineText]}
    /\ UNCHANGED closedLive
    /\ UNCHANGED errors
    /\ UNCHANGED <<codecVars, locatorVars, inferVars>>
    /\ UNCHANGED <<lineText, sourceEdits, hoverArgs, hovers, pc, editContext, stored,
                   textDocuments, timers, writes, replaced, cleanups>>

\* mutant: the save also stores the span of the text it wrote as the
\* stringRange of the context
SaveEditStoresRange(s) ==
    LET ctx == contexts[s.ctx]
        escapedString == multiLineToEscapedString(s.editedText, ctx.escapeStyle, ctx.escapeMap)
    IN
    /\ s \in saves
    /\ s.pc = "edit"
    /\ lineText' = ReplaceRange(lineText, s.stringRange, escapedString)
    /\ writes' = Append(writes, WriteRecord(s.ctx, "save", s.id, s.stringRange, escapedString,
                                            s.resolvedOn))
    /\ contexts' = [contexts EXCEPT ![s.ctx].wasSaved = TRUE,
                                    ![s.ctx].lastSavedText = s.editedText,
                                    ![s.ctx].stringRange =
                                        <<s.stringRange[1], s.stringRange[1] + Len(escapedString)>>]
    /\ saves' = (saves \ {s}) \cup {[s EXCEPT !.pc = "close"]}
    /\ UNCHANGED closedLive
    /\ UNCHANGED errors
    /\ UNCHANGED <<codecVars, locatorVars, inferVars>>
    /\ UNCHANGED <<sourceEdits, hoverArgs, hovers, pc, editContext, stored, files, textDocuments,
                   scratch, savesDone, timers, warnings, replaced, handled, cleanups>>

\* the source document is shown, the encoded text replaces the range, and
\* the context is marked saved
SaveEdit(s) ==
    LET ctx == contexts[s.ctx]
        escapedString == multiLineToEscapedString(s.editedText, ctx.escapeStyle, ctx.escapeMap)
    IN
    /\ s \in saves
    /\ s.pc = "edit"
    /\ lineText' = ReplaceRange(lineText, s.stringRange, escapedString)
    /\ writes' = Append(writes, WriteRecord(s.ctx, "save", s.id, s.stringRange, escapedString,
                                            s.resolvedOn))
    /\ contexts' = [contexts EXCEPT ![s.ctx].wasSaved = TRUE,
                                    ![s.ctx].lastSavedText = s.editedText]
    /\ saves' = (saves \ {s}) \cup {[s EXCEPT !.pc = "close"]}
    /\ UNCHANGED closedLive
    /\ UNCHANGED errors
    /\ UNCHANGED <<codecVars, locatorVars, inferVars>>
    /\ UNCHANGED <<sourceEdits, hoverArgs, hovers, pc, editContext, stored, files, textDocuments,
                   scratch, savesDone, timers, warnings, replaced, handled, cleanups>>

\* the handler with the assignment of line 901 left out
onDidChangeVisibleTextEditorsKeepsContext(docs) ==
    LET c == editContext
        stillOpen == docs[contexts[c].tempFilePath] # Undefined
    IN
    IF c # 0 /\ ~stillOpen
    THEN /\ timers' = timers \cup {[ctx |-> c, pc |-> "due"]}
         /\ UNCHANGED <<editContext, stored>>
    ELSE UNCHANGED <<timers, editContext, stored>>

\* the handler of onDidChangeVisibleTextEditors, run when a tab has closed
\* and the open documents are docs: when the scratch copy of the context is
\* no longer open, the cleanup is scheduled and the context is cleared
onDidChangeVisibleTextEditors(docs) ==
    LET c == editContext
        stillOpen == docs[contexts[c].tempFilePath] # Undefined
    IN
    IF c # 0 /\ ~stillOpen
    THEN /\ timers' = timers \cup {[ctx |-> c, pc |-> "due"]}
         /\ editContext' = 0
         /\ UNCHANGED stored
    ELSE UNCHANGED <<timers, editContext, stored>>

\* the stored context whose scratch copy is the one at path p, if any
LiveAt(p) ==
    IF editContext # 0 /\ contexts[editContext].tempFilePath = p THEN {editContext} ELSE {}

\* the String Editor tab is closed after the save
SaveClose(s) ==
    LET path == contexts[s.ctx].tempFilePath IN
    /\ s \in saves
    /\ s.pc = "close"
    /\ saves' = saves \ {s}
    /\ IF textDocuments[path] # Undefined
       THEN /\ textDocuments' = [textDocuments EXCEPT ![path] = Undefined]
            /\ scratch' = [scratch EXCEPT ![path].closedText = textDocuments[path]]
            /\ onDidChangeVisibleTextEditors([textDocuments EXCEPT ![path] = Undefined])
            /\ closedLive' = closedLive \cup LiveAt(path)
       ELSE UNCHANGED <<textDocuments, scratch, timers, editContext, stored, closedLive>>
    /\ UNCHANGED errors
    /\ UNCHANGED <<codecVars, locatorVars, inferVars>>
    /\ UNCHANGED <<lineText, sourceEdits, hoverArgs, hovers, pc, contexts,
                   files, savesDone, warnings, writes, replaced, handled, cleanups>>

\* the user closes the tab of a scratch copy, what was typed and not saved
\* is dropped
CloseScratch(p) ==
    /\ Shown(p)
    /\ textDocuments' = [textDocuments EXCEPT ![p] = Undefined]
    /\ scratch' = [scratch EXCEPT ![p].closedText = textDocuments[p]]
    /\ onDidChangeVisibleTextEditors([textDocuments EXCEPT ![p] = Undefined])
    /\ closedLive' = closedLive \cup LiveAt(p)
    /\ UNCHANGED errors
    /\ UNCHANGED <<codecVars, locatorVars, inferVars>>
    /\ UNCHANGED <<lineText, sourceEdits, hoverArgs, hovers, pc, contexts,
                   files, saves, savesDone, warnings, writes, replaced, handled, cleanups>>

\* the text the cleanup takes over: the last saved text, else the scratch file
TakenOverText(ctx) ==
    IF Truthy(ctx.lastSavedText) THEN ctx.lastSavedText
    ELSE IF files[ctx.tempFilePath] # Undefined THEN files[ctx.tempFilePath]
    ELSE ctx.lastSavedText

\* mutant: the text is compared with the literal as written, not as decoded
TakesOverAgainstLiteral(ctx) ==
    /\ Truthy(TakenOverText(ctx))
    /\ ctx.documentUri # ""
    /\ ctx.stringRange # NoRange
    /\ TakenOverText(ctx) # ctx.originalString

\* the condition under which the cleanup writes to the source document
TakesOver(ctx) ==
    /\ Truthy(TakenOverText(ctx))
    /\ ctx.documentUri # ""
    /\ ctx.stringRange # NoRange
    /\ TakenOverText(ctx) # parseEscapeSequences(ctx.originalString, ctx.originalString)

\* fs.unlinkSync(ctx.tempFilePath); fs.rmSync(tempDir, { recursive: true })
NoFiles == [p \in Paths |-> Undefined]

\* the setTimeout callback runs: it replaces the recorded range and waits
\* for the edit, or goes on to delete the scratch file and its folder
TimerFired(t) ==
    LET ctx == contexts[t.ctx]
        escapedString == multiLineToEscapedString(TakenOverText(ctx), ctx.escapeStyle,
                                                  ctx.escapeMap)
    IN
    /\ t \in timers
    /\ t.pc = "due"
    /\ cleanups' = cleanups \cup {[ctx |-> t.ctx, lastSavedText |-> ctx.lastSavedText,
                                     file |-> files[ctx.tempFilePath],
                                     wrote |-> TakesOver(ctx)]}
    /\ IF TakesOver(ctx)
       THEN /\ lineText' = ReplaceRange(lineText, ctx.stringRange, escapedString)
            /\ writes' = Append(writes, WriteRecord(t.ctx, "close", 0, ctx.stringRange,
                                                    escapedString, lineText))
            /\ timers' = (timers \ {t}) \cup {[t EXCEPT !.pc = "cleanup"]}
            /\ UNCHANGED files
       ELSE /\ files' = NoFiles
            /\ timers' = timers \ {t}
            /\ UNCHANGED <<lineText, writes>>
    /\ UNCHANGED closedLive
    /\ UNCHANGED errors
    /\ UNCHANGED <<codecVars, locatorVars, inferVars>>
    /\ UNCHANGED <<sourceEdits, hoverArgs, hovers, pc, contexts, editContext, stored,
                   textDocuments, scratch, saves, savesDone, warnings, replaced,
                   handled>>

\* the edit of the callback has settled: the scratch file and folder go
TimerCleanup(t) ==
    /\ t \in timers
    /\ t.pc = "cleanup"
    /\ files' = NoFiles
    /\ timers' = timers \ {t}
    /\ UNCHANGED closedLive
    /\ UNCHANGED errors
    /\ UNCHANGED <<codecVars, locatorVars, inferVars>>
    /\ UNCHANGED <<lineText, sourceEdits, hoverArgs, hovers, pc, contexts, editContext, stored,
                   textDocuments, scratch, saves, savesDone, warnings, writes, replaced,
                   handled, cleanups>>

Next ==
    \/ EditSource
    \/ \E character \in HoverPositions : provideHover(character)
    \/ EditFromHover
    \/ EditWithString
    \/ EditAtCursor
    \/ \E r \in Requests : EditOpened(r)
    \/ \E r \in Requests : EditShown(r)
    \/ \E p \in Paths, text \in ScratchTexts : TypeInScratch(p, text)
    \/ \E p \in Paths : onDidSaveTextDocument(p)
    \/ \E s \in saves : SaveEdit(s)
    \/ \E s \in saves : SaveClose(s)
    \/ \E p \in Paths : CloseScratch(p)
    \/ \E t \in timers : TimerFired(t)
    \/ \E t \in timers : TimerCleanup(t)

\* the extension is activated on a source document; the codec variables rest
Init ==
    /\ SessionInit
    /\ LocatorIdle
    /\ HoverIdle
    /\ InferIdle
    /\ literal = <<>>
    /\ styleSource = Undefined
    /\ decoded = <<>>
    /\ defaultStyle = "single-escaped"
    /\ encoded = <<>>
    /\ cstep = "rest"

Spec == Init /\ [][Next]_vars

\* the edit sessions begun by the string and the cursor form, on a source
\* line that stays as it is
TimerNext ==
    \/ EditWithString
    \/ EditAtCursor
    \/ \E r \in Requests : EditOpened(r)
    \/ \E r \in Requests : EditShown(r)
    \/ \E p \in Paths, text \in ScratchTexts : TypeInScratch(p, text)
    \/ \E p \in Paths : onDidSaveTextDocument(p)
    \/ \E s \in saves : SaveEdit(s)
    \/ \E s \in saves : SaveClose(s)
    \/ \E p \in Paths : CloseScratch(p)
    \/ \E t \in timers : TimerFired(t)
    \/ \E t \in timers : TimerCleanup(t)

\* the messages of the catches before the scratch file is on disk
EarlyFailures == {"Failed to create temp directory", "Failed to write temp file"}

\* mkdirSync or writeFileSync throws: no scratch file, the locals are lost
EditFailsEarly(r, message) ==
    /\ pc[r] = "unused"
    /\ \A q \in Requests : q < r => pc[q] \in {"done", "failed"}
    /\ AbortRequest(r, message)
    /\ UNCHANGED <<codecVars, locatorVars, inferVars>>
    /\ UNCHANGED <<lineText, sourceEdits, hoverArgs, hovers, contexts, files, textDocuments,
                   scratch, saves, savesDone, timers, warnings, writes, replaced, handled,
                   cleanups, closedLive>>

\* realpathSync throws: the scratch file is on disk, the locals are lost
ResolveFails(r, locals) ==
    /\ pc[r] = "unused"
    /\ \A q \in Requests : q < r => pc[q] \in {"done", "failed"}
    /\ files' = [files EXCEPT ![FreePath] =
                    parseEscapeSequences(locals.originalString, locals.originalString)]
    /\ scratch' = [scratch EXCEPT ![FreePath] = [saved |-> FALSE, closedText |-> Undefined]]
    /\ AbortRequest(r, "Failed to resolve temp file path")
    /\ UNCHANGED <<codecVars, locatorVars, inferVars>>
    /\ UNCHANGED <<lineText, sourceEdits, hoverArgs, hovers, contexts, textDocuments,
                   saves, savesDone, timers, warnings, writes, replaced, handled,
                   cleanups, closedLive>>

\* openTextDocument rejects although the scratch file is there
OpenFails(r) ==
    /\ pc[r] = "opening"
    /\ AbortRequest(r, "Failed to open temp file")
    /\ UNCHANGED <<codecVars, locatorVars, inferVars>>
    /\ UNCHANGED <<lineText, sourceEdits, hoverArgs, hovers, contexts, files, textDocuments,
                   scratch, saves, savesDone, timers, warnings, writes, replaced, handled,
                   cleanups, closedLive>>

\* showTextDocument rejects
ShowFails(r) ==
    /\ pc[r] = "showing"
    /\ AbortRequest(r, "Failed to show temp file in editor")
    /\ UNCHANGED <<codecVars, locatorVars, inferVars>>
    /\ UNCHANGED <<lineText, sourceEdits, hoverArgs, hovers, contexts, files, textDocuments,
                   scratch, saves, savesDone, timers, warnings, writes, replaced, handled,
                   cleanups, closedLive>>

\* the edit sessions of TimerNext with calls on the scratch file that fail
FailureNext ==
    \/ TimerNext
    \/ \E r \in Requests, message \in EarlyFailures : EditFailsEarly(r, message)
    \/ \E r \in Requests, character \in CursorPositions :
           ResolveFails(r, CursorLocals(character))
    \/ \E r \in Requests : OpenFails(r)
    \/ \E r \in Requests : ShowFails(r)

FailureSpec == Init /\ [][FailureNext]_vars

\* a callback handed to setTimeout is run, and a callback that awaits the
\* replacement is resumed
TimerSpec ==
    /\ Init
    /\ [][TimerNext]_vars
    /\ WF_vars(\E t \in timers : TimerFired(t))
    /\ WF_vars(\E t \in timers : TimerCleanup(t))

(***************************************************************************)
(* Edit requests that overlap: the command is run again while an earlier   *)
(* run waits at openTextDocument or showTextDocument                       *)
(***************************************************************************)
\* the next request is made, in any of its three forms, whatever the runs
\* before it are doing; no scratch copy is saved, so the callback of a
\* close has nothing to write and deletes at once
EditOverlapping ==
    \E r \in Requests :
        /\ \A q \in Requests : q < r => pc[q] # "unused"
        /\ \/ hoverArgs # NoHover /\ StartEdit(r, HoverLocals(hoverArgs))
           \/ \E arg \in StringArgs, character \in StringPositions :
                  StartEdit(r, StringLocals(arg, character))
           \/ \E character \in CursorPositions : StartEdit(r, CursorLocals(character))

OverlapNext ==
    \/ \E character \in HoverPositions : provideHover(character)
    \/ EditOverlapping
    \/ \E r \in Requests : EditOpened(r)
    \/ \E r \in Requests : EditShown(r)
    \/ \E p \in Paths : CloseScratch(p)
    \/ \E t \in timers : TimerFired(t)

OverlapSpec == Init /\ [][OverlapNext]_vars

(***************************************************************************)
(* The codec applied to a literal: decode it, then encode the result with  *)
(* the style map of the same literal, as an edit followed by a save does.  *)
(***************************************************************************)
\* the characters literals are drawn from
Alphabet == {BS, "n", "t", SLASH, DQ, SQ, "a"}

\* the escape sequences literals are drawn from
Tokens == {<<"a">>} \cup {SinglePat(ch) : ch \in Specials}
                    \cup {DoublePat(ch) : ch \in Specials}

RECURSIVE Flatten(_)
Flatten(toks) ==
    IF toks = <<>> THEN <<>> ELSE Head(toks) \o Flatten(Tail(toks))

RawLiterals == UNION {[1..k -> Alphabet] : k \in 0..MaxLen}
TokenLiterals == {Flatten(toks) : toks \in UNION {[1..k -> Tokens] : k \in 0..MaxTokens}}
Literals == RawLiterals \cup TokenLiterals

\* the `original` arguments a caller hands to decode besides the literal itself
OtherOriginals == {Undefined, <<BS, "n">>, <<BS, BS, "t", BS, DQ>>}

Styles == {"single-escaped", "double-escaped"}

CodecInit ==
    /\ literal \in Literals
    /\ styleSource = Undefined
    /\ decoded = <<>>
    /\ defaultStyle = "single-escaped"
    /\ encoded = <<>>
    /\ cstep = "literal"
    /\ SessionInit
    /\ LocatorIdle
    /\ HoverIdle
    /\ InferIdle


Decode(orig) ==
    /\ cstep = "literal"
    /\ styleSource' = orig
    /\ decoded' = parseEscapeSequences(literal, orig)
    /\ cstep' = "decoded"
    /\ UNCHANGED <<literal, defaultStyle, encoded>>
    /\ UNCHANGED <<sessionVars, locatorVars, inferVars>>

Encode(st) ==
    /\ cstep = "decoded"
    /\ styleSource = literal
    /\ defaultStyle' = st
    /\ encoded' = multiLineToEscapedString(decoded, st, buildEscapeStyleMap(styleSource))
    /\ cstep' = "encoded"
    /\ UNCHANGED <<literal, styleSource, decoded>>
    /\ UNCHANGED <<sessionVars, locatorVars, inferVars>>

DecodeOwn == Decode(literal)
DecodeOther == \E orig \in OtherOriginals : Decode(orig)
EncodeAny == \E st \in Styles : Encode(st)

CodecNext ==
    \/ DecodeOwn
    \/ DecodeOther
    \/ EncodeAny

CodecSpec == CodecInit /\ [][CodecNext]_vars

(***************************************************************************)
(* The codec between the edit request and the save: the literal is decoded *)
(* into the scratch copy, the user types over ordinary characters, and the *)
(* save encodes what the scratch copy holds                                *)
(***************************************************************************)
\* the characters the user types
Ordinary == {"a", "n", "t"}

\* literals of ordinary characters and single-escaped newlines and tabs
EditTokens == {<<ch>> : ch \in Ordinary} \cup {SinglePat(NL), SinglePat(TAB)}
EditLiterals == {Flatten(toks) : toks \in UNION {[1..k -> EditTokens] : k \in 1..MaxTokens}}

EditInit ==
    /\ literal \in EditLiterals
    /\ styleSource = Undefined
    /\ decoded = <<>>
    /\ defaultStyle = "single-escaped"
    /\ encoded = <<>>
    /\ cstep = "literal"
    /\ SessionInit
    /\ LocatorIdle
    /\ HoverIdle
    /\ InferIdle

\* the user replaces the ordinary character at index i of the scratch copy
TypeOver(i, ch) ==
    /\ cstep = "decoded"
    /\ i \in 1..Len(decoded)
    /\ decoded[i] \in Ordinary
    /\ decoded[i] # ch
    /\ decoded' = [decoded EXCEPT ![i] = ch]
    /\ UNCHANGED <<literal, styleSource, defaultStyle, encoded, cstep>>
    /\ UNCHANGED <<sessionVars, locatorVars, inferVars>>

\* the save encodes with the style and the map the request stored
SaveScratch == Encode(defaultEscapeStyle(literal))

EditNext ==
    \/ DecodeOwn
    \/ \E i \in 1..MaxTokens, ch \in Ordinary : TypeOver(i, ch)
    \/ SaveScratch

EditSpec == EditInit /\ [][EditNext]_vars

(***************************************************************************)
(* The inferencer called on a literal, and again after an escape sequence  *)
(* of one special character was added to the literal                       *)
(***************************************************************************)
InferInit ==
    /\ literal \in Literals
    /\ styleSource = Undefined
    /\ decoded = <<>>
    /\ defaultStyle = "single-escaped"
    /\ encoded = <<>>
    /\ cstep = "literal"
    /\ SessionInit
    /\ LocatorIdle
    /\ HoverIdle
    /\ InferIdle

Infer ==
    /\ cstep = "literal"
    /\ styleMap' = buildEscapeStyleMap(literal)
    /\ cstep' = "inferred"
    /\ UNCHANGED <<literal, styleSource, decoded, defaultStyle, encoded, prior>>
    /\ UNCHANGED <<sessionVars, locatorVars>>

\* the single- or double-escaped sequence of the special ch is put into the
\* literal after its first i characters, and the map is inferred again
AddSequence(ch, pat, i) ==
    /\ cstep = "inferred"
    /\ i \in 0..Len(literal)
    /\ prior' = [literal |-> literal, styleMap |-> styleMap, of |-> ch, at |-> i]
    /\ literal' = SubSeq(literal, 1, i) \o pat \o Drop(literal, i)
    /\ styleMap' = buildEscapeStyleMap(literal')
    /\ cstep' = "inferred again"
    /\ UNCHANGED <<styleSource, decoded, defaultStyle, encoded>>
    /\ UNCHANGED <<sessionVars, locatorVars>>

InferNext ==
    \/ Infer
    \/ \E ch \in Specials, i \in 0..MaxLen : AddSequence(ch, SinglePat(ch), i)
    \/ \E ch \in Specials, i \in 0..MaxLen : AddSequence(ch, DoublePat(ch), i)

InferSpec == InferInit /\ [][InferNext]_vars

(***************************************************************************)
(* The encoder called on a text, an escape map and a default style         *)
(***************************************************************************)
\* the characters the texts are drawn from
TextAlphabet == Specials \cup {"a"}
Texts == UNION {[1..k -> TextAlphabet] : k \in 0..MaxTextLen}

\* the escape maps: an entry or none for each special character of the text
EscapeMaps(text) ==
    {m \in [Specials -> {absent, "single-escaped", "double-escaped"}] :
        \A ch \in Specials : ~Includes(text, ch) => m[ch] = absent}

EncodeInit ==
    /\ decoded \in Texts
    /\ styleMap \in EscapeMaps(decoded)
    /\ defaultStyle \in Styles
    /\ literal = <<>>
    /\ styleSource = Undefined
    /\ encoded = <<>>
    /\ cstep = "decoded"
    /\ prior = NoPrior
    /\ SessionInit
    /\ LocatorIdle
    /\ HoverIdle

EncodeText ==
    /\ cstep = "decoded"
    /\ encoded' = multiLineToEscapedString(decoded, defaultStyle, styleMap)
    /\ cstep' = "encoded"
    /\ UNCHANGED <<literal, styleSource, decoded, defaultStyle>>
    /\ UNCHANGED <<sessionVars, locatorVars, inferVars>>

\* an edit of the literal just written begins: the literal is decoded with
\* the style map inferred from itself
Reopen ==
    /\ cstep = "encoded"
    /\ literal' = encoded
    /\ styleSource' = encoded
    /\ decoded' = parseEscapeSequences(encoded, encoded)
    /\ cstep' = "reopened"
    /\ UNCHANGED <<defaultStyle, encoded>>
    /\ UNCHANGED <<sessionVars, locatorVars, inferVars>>

\* the encoded text is in the source document between two quotes, as the
\* save put it there, and the locator is called at an offset inside it
LocateWritten(quote, character) ==
    /\ cstep = "encoded"
    /\ character \in 1..Len(encoded)
    /\ docLine' = <<quote>> \o encoded \o <<quote>>
    /\ position' = character
    /\ located' = isPositionInString(docLine', character)
    /\ cstep' = "located"
    /\ UNCHANGED <<literal, styleSource, decoded, defaultStyle, encoded>>
    /\ UNCHANGED hoverVars
    /\ UNCHANGED <<sessionVars, inferVars>>

EncodeNext ==
    \/ EncodeText
    \/ Reopen
    \/ \E quote \in {DQ, SQ}, character \in 1..(4 * MaxTextLen) : LocateWritten(quote, character)

EncodeSpec == EncodeInit /\ [][EncodeNext]_vars

(***************************************************************************)
(* The locator called on a line and a position                             *)
(***************************************************************************)
\* the characters the lines are drawn from
LineAlphabet == {DQ, SQ, BS, "a"}

\* the lines of the documentation of the locator
ExampleLines ==
    {<<"a", "=", DQ, "x", BS, DQ, "y", DQ, "b">>,
     <<"a", "=", DQ, "n", "o", " ", "e", "n", "d">>}

DocLines == UNION {[1..k -> LineAlphabet] : k \in 0..MaxLineLen} \cup ExampleLines

LocatorInit ==
    /\ docLine \in DocLines
    /\ position \in 0..Len(docLine)
    /\ located = NotLocated
    /\ literal = <<>>
    /\ styleSource = Undefined
    /\ decoded = <<>>
    /\ defaultStyle = "single-escaped"
    /\ encoded = <<>>
    /\ cstep = "literal"
    /\ SessionInit
    /\ InferIdle
    /\ HoverIdle

Locate ==
    /\ located = NotLocated
    /\ located' = isPositionInString(docLine, position)
    /\ UNCHANGED <<docLine, position, hoverVars>>
    /\ UNCHANGED <<codecVars, sessionVars, inferVars>>

LocatorNext == Locate

LocatorSpec == LocatorInit /\ [][LocatorNext]_vars

(***************************************************************************)
(* The hover provider called on a document, a position and the settings    *)
(***************************************************************************)
\* config.get(...) || default: the default replaces every falsy value
getConfiguration(raw) ==
    [enabledFileTypes |-> IF raw.enabledFileTypes = NoFileTypes
                          THEN << <<"j", "s", "o", "n">> >> ELSE raw.enabledFileTypes,
     enableAutoPreview |-> IF raw.enableAutoPreview \in {"unset", "false"}
                           THEN "true" ELSE raw.enableAutoPreview]

\* name.split('.').pop() || ''
RECURSIVE LastPart(_)
LastPart(name) ==
    IF name = <<>> THEN <<>>
    ELSE IF Includes(Tail(name), ".") THEN LastPart(Tail(name))
    ELSE IF Head(name) = "." THEN Tail(name)
    ELSE name

\* array.includes(x)
ArrayIncludes(array, x) == \E i \in 1..Len(array) : array[i] = x

\* mutant: the type is looked up only as it is, without the dot
isFileTypeEnabledNoDot(name, config) ==
    ArrayIncludes(config.enabledFileTypes, LastPart(name))

isFileTypeEnabled(name, config) ==
    LET fileExtension == LastPart(name) IN
    \/ ArrayIncludes(config.enabledFileTypes, fileExtension)
    \/ ArrayIncludes(config.enabledFileTypes, <<".">> \o fileExtension)

\* mutant: an error of highlightAuto is thrown on; null stands for it
detectCodeLanguageUncaught(content, auto) ==
    IF Len(content) < 10 THEN ""
    ELSE IF auto.throws THEN "error"
    ELSE IF auto.language # "" /\ auto.relevance > 5 THEN auto.language
    ELSE ""

\* the language, "" for null; auto is what hljs.highlightAuto does
detectCodeLanguage(content, auto) ==
    IF Len(content) < 10 THEN ""
    ELSE IF auto.throws THEN ""
    ELSE IF auto.language # "" /\ auto.relevance > 5 THEN auto.language
    ELSE ""

\* provideHover(document, position, token), given the configuration read
HoverFor(name, config, line, character, auto) ==
    IF ~isFileTypeEnabled(name, config) THEN NoHoverResult
    ELSE LET res == isPositionInString(line, character) IN
         IF ~res.isInString \/ res.stringRange = NoRange THEN NoHoverResult
         ELSE IF ~containsEscapeSequences(res.stringContent) THEN NoHoverResult
         ELSE LET parsedContent == parseEscapeSequences(res.stringContent, res.stringContent)
              IN [called |-> TRUE, shown |-> TRUE, range |-> res.stringRange,
                  stringContent |-> res.stringContent,
                  parsedContent |-> parsedContent,
                  language |-> detectCodeLanguage(parsedContent, auto)]

\* the file names, with an extension
FileNames ==
    {<<"a", ".", "j", "s", "o", "n">>, <<"a", ".", "t", "s">>, <<"a", ".", "t", "s", ".", "j", "s", "o", "n">>,
     <<"j", "s", "o", "n", ".", "a">>}

\* the values of escapeBuster.enabledFileTypes
FileTypeSettings ==
    {NoFileTypes, <<>>, << <<"j", "s", "o", "n">> >>, << <<".", "j", "s", "o", "n">> >>, << <<"t", "s">>, <<".", "a">> >>}

\* the lines hovered over: "a\nb", "ab", "a\\nb", "a\\\nb", 'a\'b',
\* "\\", x="0123456789\t" and a line without a quote
HoverLines ==
    {<<DQ, "a", BS, "n", "b", DQ>>,
     <<DQ, "a", "b", DQ>>,
     <<DQ, "a", BS, BS, "n", "b", DQ>>,
     <<DQ, "a", BS, BS, BS, "n", "b", DQ>>,
     <<SQ, "a", BS, SQ, "b", SQ>>,
     <<DQ, BS, BS, DQ>>,
     <<"x", "=", DQ, "0", "1", "2", "3", "4", "5", "6", "7", "8", "9", BS, "t", DQ>>,
     <<"a", BS, "n", "b">>}

\* what hljs.highlightAuto does
Detections ==
    {[throws |-> TRUE, language |-> "", relevance |-> 0],
     [throws |-> FALSE, language |-> "", relevance |-> 0],
     [throws |-> FALSE, language |-> "json", relevance |-> 5],
     [throws |-> FALSE, language |-> "json", relevance |-> 6]}

HoverInit ==
    /\ docLine \in HoverLines
    /\ position \in 0..Len(docLine)
    /\ located = NotLocated
    /\ fileName \in FileNames
    /\ settings \in [enabledFileTypes : FileTypeSettings,
                      enableAutoPreview : {"unset", "true", "false"}]
    /\ highlighter \in Detections
    /\ configuration = NoSettings
    /\ hoverResult = NotHovered
    /\ PanelIdle
    /\ literal = <<>>
    /\ styleSource = Undefined
    /\ decoded = <<>>
    /\ defaultStyle = "single-escaped"
    /\ encoded = <<>>
    /\ cstep = "literal"
    /\ SessionInit
    /\ InferIdle

\* the user hovers: provideHover reads the configuration and returns
Hover ==
    /\ ~hoverResult.called
    /\ configuration' = getConfiguration(settings)
    /\ hoverResult' = HoverFor(fileName, getConfiguration(settings), docLine, position,
                               highlighter)
    /\ UNCHANGED <<docLine, position, located, fileName, settings, highlighter>>
    /\ UNCHANGED panelVars
    /\ UNCHANGED <<codecVars, sessionVars, inferVars>>

HoverNext == Hover

HoverSpec == HoverInit /\ [][HoverNext]_vars

(***************************************************************************)
(* The preview panel: the preview command, and the user closing the panel  *)
(***************************************************************************)
\* mutant: a panel is made at every call
createOrShowAlwaysCreates(content, title) ==
    /\ created' = created + 1
    /\ panels' = panels \cup {created + 1}
    /\ currentPanel' = created + 1
    /\ webviews' = [webviews EXCEPT ![created + 1] = [title |-> title, content |-> content]]

\* EscapePreviewPanel.createOrShow: the panel there is revealed and updated,
\* or a panel is made, kept as currentPanel and updated
createOrShow(content, title) ==
    IF currentPanel # 0
    THEN /\ webviews' = [webviews EXCEPT ![currentPanel] =
                            [title |-> title, content |-> content]]
         /\ UNCHANGED <<panels, currentPanel, created>>
    ELSE /\ created' = created + 1
         /\ panels' = panels \cup {created + 1}
         /\ currentPanel' = created + 1
         /\ webviews' = [webviews EXCEPT ![created + 1] =
                            [title |-> title, content |-> content]]

\* the command escape-buster.previewEscapedString with its argument, the
\* cursor at `position` of the line; without a text to show it tells the
\* user and returns
previewEscapedString(arg) ==
    LET res == isPositionInString(docLine, position)
        stringContent == IF Truthy(arg) THEN arg
                         ELSE IF res.isInString /\ res.stringContent # <<>>
                         THEN res.stringContent ELSE <<>>
        parsedContent == parseEscapeSequences(stringContent, stringContent)
        language == detectCodeLanguage(parsedContent, highlighter)
    IN
    /\ stringContent # <<>>
    /\ previews < MaxPreviews
    /\ (currentPanel # 0 \/ created < MaxPanels)
    /\ previews' = previews + 1
    /\ createOrShow(parsedContent, <<"Escaped String Preview", language>>)
    /\ UNCHANGED <<docLine, position, located, fileName, settings, highlighter,
                   configuration, hoverResult>>
    /\ UNCHANGED <<codecVars, sessionVars, inferVars>>

\* the user closes the panel: onDidDispose runs dispose()
dispose(id) ==
    /\ id \in panels
    /\ currentPanel' = 0
    /\ panels' = panels \ {id}
    /\ UNCHANGED <<created, webviews, previews>>
    /\ UNCHANGED <<docLine, position, located, fileName, settings, highlighter,
                   configuration, hoverResult>>
    /\ UNCHANGED <<codecVars, sessionVars, inferVars>>

\* the texts the command is called with; Undefined when it is called
\* without one
PreviewArgs == {Undefined, <<"a", BS, "n", "b">>}

\* the lines the cursor is on: x="0123456789\t", "a\nb" and a\nb
PreviewLines ==
    {<<"x", "=", DQ, "0", "1", "2", "3", "4", "5", "6", "7", "8", "9", BS, "t", DQ>>,
     <<DQ, "a", BS, "n", "b", DQ>>,
     <<"a", BS, "n", "b">>}

PanelInit ==
    /\ docLine \in PreviewLines
    /\ position \in 0..Len(docLine)
    /\ located = NotLocated
    /\ fileName = <<>>
    /\ settings = NoSettings
    /\ highlighter \in Detections
    /\ configuration = NoSettings
    /\ hoverResult = NotHovered
    /\ PanelIdle
    /\ literal = <<>>
    /\ styleSource = Undefined
    /\ decoded = <<>>
    /\ defaultStyle = "single-escaped"
    /\ encoded = <<>>
    /\ cstep = "literal"
    /\ SessionInit
    /\ InferIdle

PanelNext ==
    \/ \E arg \in PreviewArgs : previewEscapedString(arg)
    \/ \E id \in 1..MaxPanels : dispose(id)

PanelSpec == PanelInit /\ [][PanelNext]_vars

(***************************************************************************)
(* Properties of the codec                                                 *)
(***************************************************************************)
\* the special characters a literal holds, read as the host language reads
\* it: a backslash and the marker after it stand for the marker's special, a
\* backslash before anything else and an unescaped quote or slash stand for
\* themselves
MarkerSpecial(m) == CHOOSE ch \in Specials : Marker(ch) = m
Markers == {Marker(ch) : ch \in Specials}

RECURSIVE PresentSpecials(_)
PresentSpecials(L) ==
    IF L = <<>> THEN {}
    ELSE IF Head(L) = BS
         THEN IF Len(L) >= 2 /\ L[2] \in Markers
              THEN {MarkerSpecial(L[2])} \cup PresentSpecials(Drop(L, 2))
              ELSE {BS} \cup PresentSpecials(Tail(L))
         ELSE (IF Head(L) \in Specials THEN {Head(L)} ELSE {})
              \cup PresentSpecials(Tail(L))

\* the literal has been decoded and encoded again with its own style map
RoundTripped == cstep = "encoded" /\ styleSource = literal

\* C1: round-trip law. When every special character present in the literal
\* has an entry in the style map inferred from the literal, encoding the
\* decoded literal with that map gives the literal back, whatever the default
\* style.
C1_RoundTripLaw ==
    (/\ RoundTripped
     /\ \A ch \in PresentSpecials(literal) : buildEscapeStyleMap(literal)[ch] # absent)
    => encoded = literal

RECURSIVE SingleEscapedOnly(_)
SingleEscapedOnly(L) ==
    IF L = <<>> THEN TRUE
    ELSE IF Head(L) = BS
         THEN /\ Len(L) >= 2
              /\ L[2] \in Markers \ {BS}
              /\ SingleEscapedOnly(Drop(L, 2))
         ELSE Head(L) \notin Specials /\ SingleEscapedOnly(Tail(L))

C3_DecodeNoBackslashIdentity ==
    (cstep # "literal" /\ ~Includes(literal, BS)) => decoded = literal

\* C3 witness: a literal with markers and unescaped specials but no
\* backslash was decoded against an `original` that has escape sequences
C3_Witness ==
    /\ cstep = "decoded"
    /\ ~Includes(literal, BS)
    /\ Includes(literal, "n")
    /\ Includes(literal, SLASH)
    /\ styleSource = <<BS, "n">>

\* is L made of ordinary characters, single-escaped X and double-escaped Y
RECURSIVE IsMix(_, _, _)
IsMix(L, X, Y) ==
    IF L = <<>> THEN TRUE
    ELSE IF MatchAt(L, DoublePat(Y), 0) THEN IsMix(Drop(L, 3), X, Y)
    ELSE IF MatchAt(L, SinglePat(X), 0) THEN IsMix(Drop(L, 2), X, Y)
    ELSE Head(L) \notin Specials /\ IsMix(Tail(L), X, Y)

\* every single-escaped X by the real X, every double-escaped Y by the text
\* backslash + marker of Y
RECURSIVE MixDecoded(_, _, _)
MixDecoded(L, X, Y) ==
    IF L = <<>> THEN <<>>
    ELSE IF MatchAt(L, DoublePat(Y), 0) THEN SinglePat(Y) \o MixDecoded(Drop(L, 3), X, Y)
    ELSE IF MatchAt(L, SinglePat(X), 0) THEN <<X>> \o MixDecoded(Drop(L, 2), X, Y)
    ELSE <<Head(L)>> \o MixDecoded(Tail(L), X, Y)

\* C4: style independence. In a literal where one special character X occurs
\* only single-escaped and another, Y, only double-escaped, decode replaces
\* every sequence of X by the real X and every sequence of Y by the text
\* backslash + marker (X and Y range over the six specials other than the
\* backslash).
C4_StyleIndependence ==
    (cstep = "decoded" /\ styleSource = literal)
    => \A X, Y \in Specials \ {BS} :
         (/\ X # Y
          /\ IsMix(literal, X, Y)
          /\ Test(literal, SinglePat(X))
          /\ Test(literal, DoublePat(Y)))
         => decoded = MixDecoded(literal, X, Y)

(***************************************************************************)
(* Properties of the edit session                                          *)
(***************************************************************************)
\* the replacements made so far, by the save handler and by the cleanup
Writes == {writes[i] : i \in DOMAIN writes}
SaveWrites == {w \in Writes : w.by = "save"}

\* the text occurs on the line at n and the offset lies in its range
OccursAround(line, text, n, offset) ==
    /\ MatchAt(line, text, n)
    /\ n <= offset
    /\ offset <= n + Len(text)

\* the recorded text of a context occurs on the line around its recorded offset
Present(ctx, line) ==
    \E n \in 0..Len(line) : OccursAround(line, ctx.originalString, n, ctx.hoverCharacter)

\* the run of the save handler has come to its end
Finished(h) == \A s \in saves : s.id # h.save

\* C5: repeated-occurrence resolution. A session begun from the hover link
\* at an offset inside a literal, saved while the source document is as it
\* was, replaces exactly the span of that literal and nothing else on the
\* line.
C5_RepeatedOccurrence ==
    sourceEdits = 0 =>
        \A w \in SaveWrites :
            LET ctx == contexts[w.ctx] IN
            (ctx.form = "hover" /\ w.before = ctx.beganOn)
                => /\ w.range = ctx.beganIn
                   /\ w.after = SubSeq(ctx.beganOn, 1, ctx.beganIn[1]) \o w.text
                                  \o Drop(ctx.beganOn, ctx.beganIn[2])

C8_OneContext ==
    editContext # 0 =>
        /\ pc[editContext] = "done"
        /\ \A q \in Requests : q > editContext => pc[q] # "done"

\* C8 witness: the second request has stored its context in the place of the
\* first one's, whose scratch copy is still open.
C8_Witness ==
    /\ editContext = 2
    /\ 1 \in replaced
    /\ textDocuments[contexts[1].tempFilePath] # Undefined

\* C9: once the context of a session was replaced by that of a new one, no
\* replacement of the old session is written to the source document.
C9_NoWriteFromReplaced ==
    \A w \in Writes : ~w.superseded

\* the cleanup of a context has run to its end
CleanedUp(c) ==
    /\ \E k \in cleanups : k.ctx = c
    /\ \A t \in timers : t.ctx # c

\* the only scratch copy at its path
OwnPath(c) ==
    \A q \in Requests : q # c => contexts[q].tempFilePath # contexts[c].tempFilePath

\* C10: a scratch copy of a literal closed without ever having been saved
\* gives exactly one replacement when the content it held differs from the
\* decoded original, and none when it is the same.
C10_CloseWithoutSave ==
    \A c \in Requests :
        LET ctx == contexts[c]
            held == scratch[ctx.tempFilePath].closedText
            differs == held # parseEscapeSequences(ctx.originalString, ctx.originalString)
        IN
        (/\ CleanedUp(c)
         /\ OwnPath(c)
         /\ ctx.stringRange # NoRange
         /\ ~scratch[ctx.tempFilePath].saved
         /\ held # Undefined)
            => Cardinality({i \in DOMAIN writes : writes[i].ctx = c})
                 = IF differs THEN 1 ELSE 0

\* C10 (amended): when the scratch copy was never saved, the cleanup looks at
\* the scratch file, not at what the editor held: with the file gone or
\* still the decoded original it replaces nothing.
C10_UnsavedCloseDiscards ==
    \A k \in cleanups :
        LET ctx == contexts[k.ctx] IN
        (/\ k.lastSavedText = Undefined
         /\ k.file \in {Undefined,
                        parseEscapeSequences(ctx.originalString, ctx.originalString)})
            => /\ ~k.wrote
               /\ \A w \in Writes : ~(w.by = "close" /\ w.ctx = k.ctx)

\* C10 witness: a scratch copy of a literal was closed, never saved, holding
\* a text that differs from the decoded original, and the cleanup has run.
C10_Witness ==
    \E c \in Requests :
        LET ctx == contexts[c]
            held == scratch[ctx.tempFilePath].closedText
        IN
        /\ CleanedUp(c)
        /\ OwnPath(c)
        /\ ctx.stringRange # NoRange
        /\ ~scratch[ctx.tempFilePath].saved
        /\ held # Undefined
        /\ held # parseEscapeSequences(ctx.originalString, ctx.originalString)
        /\ \E k \in cleanups : k.ctx = c /\ k.lastSavedText = Undefined

RECURSIVE Lex(_)
Lex(L) ==
    IF L = <<>> THEN <<>>
    ELSE IF Head(L) = BS /\ Len(L) >= 2
         THEN <<SubSeq(L, 1, 2)>> \o Lex(Drop(L, 2))
         ELSE <<SubSeq(L, 1, 1)>> \o Lex(Tail(L))

\* C12: for a literal of ordinary characters and single-escaped newlines and
\* tabs, the scratch copy holds a real newline or tab where the literal has
\* the escape sequence; after typing over ordinary characters, the saved
\* literal has the same single-escaped sequences at the same places and the
\* typed characters elsewhere.
C12_EndToEnd ==
    LET L == Lex(literal)
        E == Lex(encoded)
    IN
    /\ cstep \in {"decoded", "encoded"} =>
           /\ Len(decoded) = Len(L)
           /\ \A i \in 1..Len(L) :
                  /\ L[i] = SinglePat(NL) => decoded[i] = NL
                  /\ L[i] = SinglePat(TAB) => decoded[i] = TAB
                  /\ Len(L[i]) = 1 => decoded[i] \in Ordinary
    /\ cstep = "encoded" =>
           /\ Len(E) = Len(L)
           /\ \A i \in 1..Len(L) :
                  IF Len(L[i]) = 2 THEN E[i] = L[i] ELSE E[i] = <<decoded[i]>>

\* C12 witness: a literal with an escaped newline, an escaped tab and an
\* ordinary character was saved after the ordinary character was typed over.
C12_Witness ==
    /\ cstep = "encoded"
    /\ Test(literal, SinglePat(NL))
    /\ Test(literal, SinglePat(TAB))
    /\ encoded # literal

(***************************************************************************)
(* Properties of the locator                                               *)
(***************************************************************************)
\* how many backslashes stand directly before index i (1-based) of l
RECURSIVE BackslashRun(_, _)
BackslashRun(l, i) ==
    IF i <= 1 THEN 0
    ELSE IF l[i - 1] = BS THEN 1 + BackslashRun(l, i - 1) ELSE 0

\* a quote that no backslash escapes
Delimiter(l, i) == l[i] \in {DQ, SQ} /\ BackslashRun(l, i) % 2 = 0

Least(S) == CHOOSE x \in S : \A y \in S : x <= y

\* the literals of the line from index k on: the first delimiter opens one,
\* the next delimiter of the same kind closes it; close = 0 when none does
RECURSIVE LiteralsFrom(_, _)
LiteralsFrom(l, k) ==
    LET opens == {i \in k..Len(l) : Delimiter(l, i)} IN
    IF opens = {} THEN {}
    ELSE LET o == Least(opens)
             closes == {j \in (o + 1)..Len(l) : Delimiter(l, j) /\ l[j] = l[o]}
         IN IF closes = {} THEN {[open |-> o, close |-> 0]}
            ELSE {[open |-> o, close |-> Least(closes)]}
                     \cup LiteralsFrom(l, Least(closes) + 1)

LineLiterals == LiteralsFrom(docLine, 1)

\* the 0-based position is strictly between the quotes of the literal, or
\* past the opening quote of a literal the line leaves open
StrictlyInside(lit) ==
    /\ position > lit.open - 1
    /\ lit.close # 0 => position < lit.close - 1

\* C13: for a position strictly between the opening and the closing quote
\* of a literal, the locator returns the span from the character after the
\* opening quote up to the closing quote, and the slice of the line there; a
\* quote after a backslash escape is no closing quote.
C13_TerminatedLiteral ==
    located # NotLocated =>
        \A lit \in LineLiterals :
            lit.close # 0 /\ StrictlyInside(lit) =>
                located = [isInString |-> TRUE,
                           stringRange |-> <<lit.open, lit.close - 1>>,
                           stringContent |-> SubSeq(docLine, lit.open + 1, lit.close - 1)]

\* C13 witness: on the line a="x\"y"b the locator returned x\"y.
C13_Witness ==
    /\ docLine = <<"a", "=", DQ, "x", BS, DQ, "y", DQ, "b">>
    /\ located # NotLocated
    /\ located.isInString
    /\ located.stringRange = <<3, 7>>
    /\ located.stringContent = <<"x", BS, DQ, "y">>

\* C14: when the line ends inside a literal and the position is past its
\* opening quote, the locator returns the span from the character after the
\* opening quote to the end of the line, and the rest of the line.
C14_UnterminatedLiteral ==
    located # NotLocated =>
        \A lit \in LineLiterals :
            lit.close = 0 /\ StrictlyInside(lit) =>
                located = [isInString |-> TRUE,
                           stringRange |-> <<lit.open, Len(docLine)>>,
                           stringContent |-> SubSeq(docLine, lit.open + 1, Len(docLine))]

\* C14 witness: on the line a="no end the locator returned no end.
C14_Witness ==
    /\ docLine = <<"a", "=", DQ, "n", "o", " ", "e", "n", "d">>
    /\ located # NotLocated
    /\ located.isInString
    /\ located.stringRange = <<3, 9>>
    /\ located.stringContent = <<"n", "o", " ", "e", "n", "d">>

\* C15: for a quote directly followed by the same quote, the locator called
\* with the position between the two returns a found result with a span of
\* length zero and empty content.
C15_ZeroLengthLiteral ==
    located # NotLocated =>
        \A lit \in LineLiterals :
            lit.close = lit.open + 1 /\ position = lit.open =>
                located = [isInString |-> TRUE,
                           stringRange |-> <<lit.open, lit.open>>,
                           stringContent |-> <<>>]

\* C16: for a position that is strictly inside no literal of the line, the
\* locator returns the not-found result.
C16_NotFound ==
    located # NotLocated =>
        ((\A lit \in LineLiterals : ~StrictlyInside(lit)) => located = NotInString)

\* C16 witness: not found on an opening quote, on a closing quote, between
\* two literals, and on a line without quotes.
C16_Witness ==
    /\ located = NotInString
    /\ \/ \E lit \in LineLiterals : position \in {lit.open - 1, lit.close - 1}
       \/ LineLiterals = {} /\ Len(docLine) = MaxLineLen

(***************************************************************************)
(* Properties of the inferencer and of the encoder                         *)
(***************************************************************************)
\* C17: each of the seven special characters is double-escaped when two
\* backslashes and its marker occur in the literal, else single-escaped when
\* one backslash and its marker occur, else absent.
C17_Precedence ==
    cstep = "inferred" =>
        \A ch \in Specials :
            styleMap[ch] = IF Test(literal, <<BS, BS, Marker(ch)>>) THEN "double-escaped"
                           ELSE IF Test(literal, <<BS, Marker(ch)>>) THEN "single-escaped"
                           ELSE absent

\* the sequence added is that of a special character other than the
\* backslash, and it was not put between a backslash and what follows it
AddedBeside ==
    /\ cstep = "inferred again"
    /\ prior.of # BS
    /\ IF prior.at = 0 THEN TRUE ELSE prior.literal[prior.at] # BS

\* C18: the style of a special character is the same before and after an
\* escape sequence of another special character is added to the literal
\* (the backslash, whose sequences are part of every double-escaped
\* sequence, left aside).
C18_Independence ==
    AddedBeside =>
        \A ch \in Specials \ {prior.of, BS} : styleMap[ch] = prior.styleMap[ch]

\* what the encoder writes for a special character in a style
EscapedForm(ch, style) ==
    IF style = "single-escaped" THEN <<BS, Marker(ch)>>
    ELSE IF ch = BS THEN <<BS, BS, BS, BS>>
    ELSE <<BS, BS, Marker(ch)>>

\* the text from its k-th character on, each special character in the form
\* its entry of the map names, or the default style when it has none
RECURSIVE Emitted(_)
Emitted(k) ==
    IF k > Len(decoded) THEN <<>>
    ELSE (IF decoded[k] \notin Specials THEN <<decoded[k]>>
          ELSE IF styleMap[decoded[k]] = absent THEN EscapedForm(decoded[k], defaultStyle)
          ELSE EscapedForm(decoded[k], styleMap[decoded[k]]))
         \o Emitted(k + 1)

C20_FailureKeepsContext ==
    /\ [](\A r \in Requests :
              pc[r] = "failed" => /\ \E e \in errors : e.request = r
                                  /\ editContext # r)
    /\ [][\A r \in Requests :
              pc'[r] # pc[r] /\ pc'[r] # "done" =>
                  /\ editContext' = editContext
                  /\ IF editContext = 0 THEN TRUE
                     ELSE contexts'[editContext] = contexts[editContext]]_vars

\* C20 witness: a request failed to show its scratch copy while the context
\* of an earlier session was stored.
C20_Witness ==
    \E r \in Requests :
        /\ pc[r] = "failed"
        /\ [request |-> r, message |-> "Failed to show temp file in editor"] \in errors
        /\ editContext \notin {0, r}

(***************************************************************************)
(* Properties of the hover provider                                        *)
(***************************************************************************)
\* the characters of the file name after its last dot
Extension(name) ==
    LET dots == {i \in 1..Len(name) : name[i] = "."}
        last == CHOOSE i \in dots : \A k \in dots : k <= i
    IN SubSeq(name, last + 1, Len(name))

\* the file types in force: the setting, ["json"] when there is none
TypesInForce ==
    IF settings.enabledFileTypes = NoFileTypes
    THEN {<<"j", "s", "o", "n">>}
    ELSE {settings.enabledFileTypes[i] : i \in 1..Len(settings.enabledFileTypes)}

ExtensionEnabled ==
    \E type \in TypesInForce :
        type = Extension(fileName) \/ type = <<".">> \o Extension(fileName)

\* the literal the position is strictly inside of, if any
LiteralsAround == {lit \in LineLiterals : StrictlyInside(lit)}
LiteralText(lit) ==
    SubSeq(docLine, lit.open + 1, IF lit.close = 0 THEN Len(docLine) ELSE lit.close - 1)

\* read from left to right, the literal has a backslash followed by the
\* marker of one of the seven special characters
RECURSIVE HasEscapeSequence(_)
HasEscapeSequence(L) ==
    IF Len(L) < 2 THEN FALSE
    ELSE IF Head(L) = BS
         THEN L[2] \in {Marker(ch) : ch \in Specials} \/ HasEscapeSequence(Drop(L, 2))
         ELSE HasEscapeSequence(Tail(L))

\* the literal has a backslash that no backslash stands directly before and
\* that n, t, r, a quote or a slash follows
HasLoneEscape(L) ==
    \E i \in 1..(Len(L) - 1) :
        /\ L[i] = BS
        /\ BackslashRun(L, i) = 0
        /\ L[i + 1] \in {"n", "t", "r", DQ, SQ, SLASH}

\* C21: the hover shows a preview exactly when the file extension is among
\* the enabled file types, with or without the dot, the position is inside
\* a literal and the literal contains an escape sequence.
C21_HoverExactlyWhen ==
    hoverResult.called =>
        (hoverResult.shown <=>
            /\ ExtensionEnabled
            /\ \E lit \in LiteralsAround : HasEscapeSequence(LiteralText(lit)))

\* C21 as amended: the literal contains a backslash that is not directly
\* preceded by a backslash and is followed by n, t, r, a quote or a slash.
C21_HoverWhenLoneEscape ==
    hoverResult.called =>
        (hoverResult.shown <=>
            /\ ExtensionEnabled
            /\ \E lit \in LiteralsAround : HasLoneEscape(LiteralText(lit)))

\* C21 witness: a preview was shown for a file type listed with its dot.
C21_Witness ==
    /\ hoverResult.shown
    /\ settings.enabledFileTypes = << <<".", "j", "s", "o", "n">> >>
    /\ hoverResult.stringContent = <<"a", BS, "n", "b">>
    /\ hoverResult.parsedContent = <<"a", NL, "b">>

\* C22: when the setting enableAutoPreview is false, the configuration read
\* has it false and the hover shows no preview.
C22_AutoPreviewOff ==
    hoverResult.called /\ settings.enableAutoPreview = "false" =>
        /\ configuration.enableAutoPreview = "false"
        /\ ~hoverResult.shown

\* the detection fails: highlightAuto throws, the content is shorter than
\* 10 characters, or the relevance is not above 5
DetectionFails(content) ==
    \/ highlighter.throws
    \/ Len(content) < 10
    \/ highlighter.relevance <= 5

\* C23: when the detection fails, no language is detected and the hover
\* still shows the decoded text, as plain text.
C23_DetectionFailureContained ==
    hoverResult.called =>
        \A lit \in LiteralsAround :
            LET parsed == parseEscapeSequences(LiteralText(lit), LiteralText(lit)) IN
            (/\ ExtensionEnabled
             /\ HasLoneEscape(LiteralText(lit))
             /\ DetectionFails(parsed))
            => /\ hoverResult.shown
               /\ hoverResult.parsedContent = parsed
               /\ hoverResult.language = ""

\* C23 witness: highlightAuto threw on a content of 10 characters or more
\* and the hover shows the text without a language.
C23_Witness ==
    /\ hoverResult.shown
    /\ highlighter.throws
    /\ Len(hoverResult.parsedContent) >= 10
    /\ hoverResult.language = ""

(***************************************************************************)
(* Properties of the edit session: the saved edit and the close            *)
(***************************************************************************)
\* C24: once the save handler has written the encoded text of a session,
\* the cleanup that follows the close of its scratch copy leaves the source
\* document as it is.
C24_SavedEditAppliedOnce ==
    \A i, k \in 1..Len(writes) :
        (/\ i < k
         /\ writes[i].ctx = writes[k].ctx
         /\ writes[i].by = "save"
         /\ writes[k].by = "close")
        => writes[k].after = writes[k].before

(***************************************************************************)
(* Properties of the order of the decode passes                            *)
(***************************************************************************)
\* a text whose characters carry a mark: was the character written by a pass
Marked(text, made) == [i \in 1..Len(text) |-> [ch |-> text[i], made |-> made]]
Unmarked(mtext) == [i \in 1..Len(mtext) |-> mtext[i].ch]

\* the pass of one character that matches its pattern on characters of the
\* literal only, never on a character an earlier pass wrote
IndependentPass(mresult, escapeMap, ch) ==
    IF escapeMap[ch] = "double-escaped"
    THEN ReplaceAll(mresult,
                    Marked(IF ch = BS THEN <<BS, BS, BS, BS>> ELSE DoublePat(ch), FALSE),
                    Marked(SinglePat(ch), TRUE))
    ELSE IF escapeMap[ch] = "single-escaped"
    THEN ReplaceAll(mresult, Marked(SinglePat(ch), FALSE), Marked(<<ch>>, TRUE))
    ELSE mresult

RECURSIVE IndependentPasses(_, _, _)
IndependentPasses(mresult, escapeMap, order) ==
    IF order = <<>> THEN mresult
    ELSE IndependentPasses(IndependentPass(mresult, escapeMap, Head(order)),
                           escapeMap, Tail(order))

\* C25: the style-aware decode of a literal with its own style map equals
\* the decode in which the pass of each character, in the order newline,
\* carriage return, tab, forward slash, backslash, double quote, single
\* quote, replaces escape sequences of the literal only and matches nothing
\* that an earlier pass wrote.
C25_PassesIndependent ==
    (/\ cstep # "literal"
     /\ styleSource = literal
     /\ Includes(literal, BS))
    => decoded = Unmarked(IndependentPasses(Marked(literal, FALSE),
                                            buildEscapeStyleMap(literal), DecodeOrder))

(***************************************************************************)
(* Properties of the classification of the backslash                       *)
(***************************************************************************)
\* the letters that follow the backslash in the sequences of the other six
OtherMarkers == {Marker(ch) : ch \in Specials \ {BS}}

\* every backslash of the text is directly followed by one of them
BackslashesBeforeMarkers(text) ==
    \A i \in 1..Len(text) :
        text[i] = BS => (i < Len(text) /\ text[i + 1] \in OtherMarkers)

\* C26: for a literal in which every backslash is directly followed by n, r,
\* t, a double quote, a single quote or a forward slash, the inferred map has
\* no entry for the backslash.
C26_BackslashAbsent ==
    (/\ cstep \in {"inferred", "inferred again"}
     /\ BackslashesBeforeMarkers(literal))
    => styleMap[BS] = absent

C26_Witness ==
    /\ cstep = "inferred"
    /\ BackslashesBeforeMarkers(literal)
    /\ Test(literal, SinglePat(NL))
    /\ Test(literal, SinglePat(DQ))
    /\ styleMap[NL] = "single-escaped"
    /\ styleMap[BS] = absent

(***************************************************************************)
(* Properties of the encoder and the decode of what it wrote               *)
(***************************************************************************)
\* C27: when an edit of the literal the encoder has just written begins, the
\* decode with the style map inferred from that literal gives the text that
\* was encoded.
C27_DecodeInvertsEncode ==
    [][(cstep = "encoded" /\ cstep' = "reopened") => decoded' = decoded]_vars

\* how many backslashes a text holds
RECURSIVE Backslashes(_)
Backslashes(text) ==
    IF text = <<>> THEN 0
    ELSE (IF Head(text) = BS THEN 1 ELSE 0) + Backslashes(Tail(text))

\* how many backslashes the form of one character holds
FormBackslashes(ch) ==
    IF ch \notin Specials THEN 0
    ELSE LET st == IF styleMap[ch] = absent THEN defaultStyle ELSE styleMap[ch]
             n == IF st = "double-escaped" THEN 2 ELSE 1
         IN IF ch = BS THEN 2 * n ELSE n

RECURSIVE SumFormBackslashes(_)
SumFormBackslashes(text) ==
    IF text = <<>> THEN 0
    ELSE FormBackslashes(Head(text)) + SumFormBackslashes(Tail(text))

\* C28: the encoded text is the encoded text of any first part followed by
\* the encoded text of the rest, and it holds as many backslashes as the
\* forms of its characters do: none that was emitted is escaped again.
C28_EncodeConcatenates ==
    cstep = "encoded" =>
        /\ \A k \in 0..Len(decoded) :
              encoded = multiLineToEscapedString(SubSeq(decoded, 1, k), defaultStyle, styleMap)
                        \o multiLineToEscapedString(Drop(decoded, k), defaultStyle, styleMap)
        /\ Backslashes(encoded) = SumFormBackslashes(decoded)

\* C28 witness: a text of a newline, a backslash and a tab was encoded with
\* the backslash double-escaped
C28_Witness ==
    /\ cstep = "encoded"
    /\ decoded = <<NL, BS, TAB>>
    /\ styleMap[BS] = "double-escaped"
    /\ styleMap[NL] = "single-escaped"
    /\ encoded = <<BS, "n", BS, BS, BS, BS>> \o EncodeChar(TAB, defaultStyle, styleMap)

(***************************************************************************)
(* Properties of the style map of a session                                *)
(***************************************************************************)
\* C29: the style map a save encodes with is the map inferred from the
\* original literal of the session of that save, the map its decode used,
\* whatever the form of the request.
C29_SaveMapIsOwn ==
    \A i \in 1..Len(writes) :
        writes[i].by = "save"
        => contexts[writes[i].ctx].escapeMap
             = buildEscapeStyleMap(contexts[writes[i].ctx].originalString)

(***************************************************************************)
(* Properties of the edit request made outside any literal                 *)
(***************************************************************************)
\* the request r was made without an argument at a cursor position that no
\* literal encloses
NoStringFound(r) ==
    /\ pc[r] # "unused"
    /\ contexts[r].form = "cursor"
    /\ contexts[r].originalString = <<>>
    /\ contexts[r].stringRange = NoRange

\* C30: a request made without an argument at a position that no literal
\* encloses creates no scratch copy, is not stored as the edit context, and
\* is reported.
C30_NoStringNoSession ==
    \A r \in Requests :
        NoStringFound(r)
        => /\ contexts[r].tempFilePath = NoNumber
           /\ editContext # r
           /\ \E e \in errors : e.request = r

(***************************************************************************)
(* Properties of what the handlers leave alone                             *)
(***************************************************************************)
\* the context but for its saved flag and its recorded edited text
Frame(ctx) == [ctx EXCEPT !.wasSaved = FALSE, !.lastSavedText = Undefined]

\* C31: once a request has built its context, no step changes the original
\* literal, the style map, the default style, the document, the recorded
\* line, offset and span or the scratch path of that context; the save
\* changes the saved flag and the recorded edited text only.
C31_SaveChangesFlagAndText ==
    [][\A r \in Requests :
          pc[r] # "unused" => Frame(contexts'[r]) = Frame(contexts[r])]_vars

\* C31 witness: a save has written and marked its context, whose span is
\* the one the request recorded
C31_Witness ==
    \E r \in Requests :
        /\ contexts[r].wasSaved
        /\ contexts[r].lastSavedText = <<"c", NL>>
        /\ contexts[r].stringRange = contexts[r].beganIn
        /\ contexts[r].stringRange # NoRange
        /\ \E i \in 1..Len(writes) : writes[i].ctx = r /\ writes[i].by = "save"

(***************************************************************************)
(* Properties of the cleanup and of requests that overlap                  *)
(***************************************************************************)
\* C32: the step in which the callback of a closed context ends deletes no
\* scratch file of another request: a file at another path that was there
\* before the step is there after it.
C32_CleanupSparesOthers ==
    [][\A t \in timers :
          t \notin timers'
          => \A r \in Requests :
                (/\ r # t.ctx
                 /\ pc[r] \in {"opening", "showing", "done"}
                 /\ contexts[r].tempFilePath # contexts[t.ctx].tempFilePath
                 /\ files[contexts[r].tempFilePath] # Undefined)
                => files'[contexts[r].tempFilePath] # Undefined]_vars

\* C33: while a context is stored, the object holds the original literal,
\* the style, the style map, the span, the document, the hover position and
\* the scratch path of one and the same request, however the runs of the
\* command overlap.
C33_ContextOfOneRequest ==
    editContext # 0 =>
        \E r \in Requests : pc[r] = "done" /\ stored = ContextFields(contexts[r])

\* C33 witness: the second request began while the first was waiting, and
\* was stored while the first still waits; the two differ in their literal
C33_Witness ==
    /\ pc[1] \in {"opening", "showing"}
    /\ pc[2] = "done"
    /\ editContext = 2
    /\ contexts[1].originalString # contexts[2].originalString
    /\ contexts[1].tempFilePath # contexts[2].tempFilePath
    /\ stored.originalString = contexts[2].originalString
    /\ stored.tempFilePath = contexts[2].tempFilePath

\* what an event that does not concern the stored context leaves alone: the
\* contexts, the stored context, the source document, and the handlers and
\* callbacks that would write to it
EventIgnored ==
    /\ contexts' = contexts
    /\ editContext' = editContext
    /\ stored' = stored
    /\ lineText' = lineText
    /\ saves' = saves
    /\ timers' = timers
    /\ writes' = writes

\* the step is the save of the scratch copy at path p
SavedAt(p) ==
    /\ savesDone' = savesDone + 1
    /\ ~scratch[p].saved
    /\ scratch'[p].saved

\* the step is the close of the document at path p by the user
ClosedAt(p) ==
    /\ textDocuments[p] # Undefined
    /\ textDocuments'[p] = Undefined
    /\ saves' = saves

\* C34: the save of a document that is not the scratch copy of the stored
\* context, or while no context is stored, and the close of a tab while the
\* scratch copy of the stored context stays open, or while no context is
\* stored, change neither a context nor the source document.
C34_OtherEventsIgnored ==
    [][\A p \in Paths :
          /\ (SavedAt(p) /\ (editContext = 0 \/ contexts[editContext].tempFilePath # p))
             => EventIgnored
          /\ (ClosedAt(p) /\ (editContext = 0 \/ contexts[editContext].tempFilePath # p))
             => EventIgnored]_vars

\* C34 witness: the scratch copy of the first request was saved while the
\* context of the second was the stored one, and the scratch copy of the
\* first was closed after that: no handler ran on, nothing was written
C34_Witness ==
    /\ editContext = 2
    /\ savesDone = 1
    /\ scratch[contexts[1].tempFilePath].saved
    /\ contexts[1].tempFilePath # contexts[2].tempFilePath
    /\ textDocuments[contexts[1].tempFilePath] = Undefined
    /\ textDocuments[contexts[2].tempFilePath] # Undefined
    /\ handled = {}
    /\ writes = <<>>
    /\ timers = {}

(***************************************************************************)
(* Properties of the literal a save writes                                 *)
(***************************************************************************)
\* C35: the locator called at an offset inside the encoded text that stands
\* between two quotes returns the span from after the first quote to the
\* last quote: the whole encoded text.
C35_WrittenLiteralWellFormed ==
    cstep = "located" => located = InString(docLine, 1, Len(docLine) - 1)

(***************************************************************************)
(* Properties of the span the locator returns                              *)
(***************************************************************************)
\* C36: a span the locator returns starts after a quote and does not end
\* before it starts nor past the end of the line; when it ends before the
\* end of the line, the character there is the closing quote; no quote of
\* the kind that opened the literal stands in the span but after a
\* backslash escape; the content is the characters of the line in the span.
C36_SpanWellFormed ==
    (located # NotLocated /\ located.isInString) =>
        LET start == located.stringRange[1]
            end == located.stringRange[2]
        IN /\ 1 <= start
           /\ start <= end
           /\ end <= Len(docLine)
           /\ docLine[start] \in {DQ, SQ}
           /\ end < Len(docLine) => docLine[end + 1] = docLine[start]
           /\ \A i \in (start + 1)..end :
                 docLine[i] = docLine[start] => ~Delimiter(docLine, i)
           /\ located.stringContent = SubSeq(docLine, start + 1, end)

\* C36 witness: on the line a="x\"y"b the locator called at offset 5, on
\* the escaped quote, returned the span between the quotes
C36_Witness ==
    /\ docLine = <<"a", "=", DQ, "x", BS, DQ, "y", DQ, "b">>
    /\ position = 5
    /\ located # NotLocated
    /\ located.isInString
    /\ located.stringRange = <<3, 7>>

(***************************************************************************)
(* Properties of the decode without a style map                            *)
(***************************************************************************)
\* the special character whose escape sequence ends in the letter m
RealOf(m) == CHOOSE ch \in Specials : Marker(ch) = m

\* the text read once from left to right: a backslash and the letter of a
\* special character after it give that character, anything else is kept
RECURSIVE DecodedOnce(_)
DecodedOnce(L) ==
    IF L = <<>> THEN <<>>
    ELSE IF Head(L) = BS /\ Len(L) >= 2 /\ L[2] \in {Marker(ch) : ch \in Specials}
         THEN <<RealOf(L[2])>> \o DecodedOnce(Drop(L, 2))
         ELSE <<Head(L)>> \o DecodedOnce(Tail(L))

\* C37: the decode of a literal without `original` is the literal read once
\* from left to right with every single-escaped sequence replaced by its
\* character.
C37_FallbackDecodesOnce ==
    (cstep # "literal" /\ styleSource = Undefined) => decoded = DecodedOnce(literal)

(***************************************************************************)
(* Properties of the preview panel                                         *)
(***************************************************************************)
\* the step is a preview request that reached createOrShow
PreviewRequested == previews' = previews + 1

\* C38: there is never more than one panel, and currentPanel is that panel
\* or nothing when there is none; a preview request made while a panel is
\* there makes no panel and sets the title and content of that one; a
\* request made when there is none makes a panel that was not there before.
C38_OnePanel ==
    /\ [](/\ Cardinality(panels) <= 1
          /\ IF currentPanel = 0 THEN panels = {} ELSE panels = {currentPanel})
    /\ [][PreviewRequested =>
             IF panels # {}
             THEN /\ panels' = panels
                  /\ created' = created
                  /\ currentPanel' = currentPanel
                  /\ webviews'[currentPanel].content # Undefined
                  /\ \A id \in 1..MaxPanels :
                        id # currentPanel => webviews'[id] = webviews[id]
             ELSE /\ created' = created + 1
                  /\ panels' = {created'}
                  /\ currentPanel' = created'
                  /\ webviews[created'] = NoWebview
                  /\ webviews'[created'].content # Undefined]_vars

\* C38 witness: the second panel is there after the first was closed, and
\* it was updated by a later request: three requests made two panels
C38_Witness ==
    /\ created = 2
    /\ previews = 3
    /\ panels = {2}
    /\ currentPanel = 2
    /\ webviews[1].content # Undefined
    /\ webviews[2].content # Undefined

=============================================================================
